---- MODULE Spec2Model ----
(***************************************************************************)
(* Frame-pacing and decode-pipeline controllers of the video frame server. *)
(* The module models the fixed-tick controllers of server.js on a discrete *)
(* millisecond clock: the 167 ms interval, the cooldown timers, the decode *)
(* timeout and the asynchronous completion of each decode.                 *)
(***************************************************************************)
EXTENDS Integers, Sequences, FiniteSets, TLC

\* ------------------------------------------------------------ constants
FPS == 6
TICK_MS == 167
COOLDOWN_MS == 10000
DECODE_TIMEOUT_MS == 15000
HIGH_THRESHOLD == 5
SKIP_THRESHOLD == 2
DEFAULT_DURATION_MS == 60000
\* Quality-mode variant.
QUALITY_HIGH_THRESHOLD == 8
QUALITY_SKIP_THRESHOLD == 3
QUALITY_COOLDOWN_MS == 5000
QUALITY_COOLDOWN_STEP == 3
QUALITY_TIMEOUT_MS == 8000

\* ------------------------------------------------------------ bounds
\* Frame dimensions of the model (the program uses 192 x 144).
WIDTH == 2
HEIGHT == 1
\* Longest run of consecutive successes the run bookkeeping follows.
MaxRun == 3
\* Number of distinct frame contents the source video cycles through.
FrameKinds == 1

\* Durations (ms) a successful probe reports: 100 ms is shorter than one
\* frame period, 200 ms gives 1 frame, 1700 ms gives 10 frames.
ProbedDurations == {100, 200, 1700}
\* Times (ms) after which the decoder's output stream ends or errors.
DecodeTimes == {20, 150, 400}

VARIABLES
    phase,              \* "probing", "running" (interval installed), "patternOnly"
    videoDuration,      \* ms
    currentFrame,
    consecutiveErrors,
    lastPixels,         \* sequence of RGB triplets
    processingActive,   \* the gate
    pending,            \* unsettled processFrame calls:
                        \*   [seek, kind, len, doneIn, timeoutIn]
    tickIn,             \* ms until the interval fires next
    cooldowns,          \* remaining ms of each pending cooldown timer
    sincePause,         \* ms since consecutiveErrors last rose above the threshold
    okRun,              \* [base, n]: cursor before, and length of, the current run of successes
    \* one call of processFrameWithDebug, event by event
    hasCompleted,
    pixelBuffer,        \* the bytes accumulated by the 'data' handler
    settlements,        \* the resolve and reject calls made so far, in order
    timeoutTimer,       \* "armed", "cleared", "fired"
    command,            \* the ffmpeg subprocess: "none", "running", "exited"
    outputStream,       \* "open", "ended", "errored"
    leaked,             \* subprocesses of earlier calls that still run
    \* adaptive controller
    retryTimers,        \* remaining ms of each pending setTimeout(processFrame)
    probeIn,            \* ms until getVideoDuration resolves
    attempts,           \* attempts started so far
    \* /frame
    response,           \* the JSON body being sent, or NoResponse
    \* the conversion loop of the 'end' handler, step by step
    pixelsBuilt,        \* the array `pixels` being built
    loopIndex,          \* i of the loop, or NaN outside it
    \* analyzeVideo and the startup block
    probe,              \* the attempt under way, or NoProbe
    videoInfo,          \* the result kept by the startup block
    activeUrl,          \* the URL handed to startProcessing
    \* the cache-optimized variant
    frameCache,         \* the Map, as the sequence of its entries in insertion order
    batch,              \* the BatchFrameProcessor: [isProcessing, stage, startFrame, count, ...]
    \* the pre-processing variant
    preProcessedFrames, \* the array: per slot the number of the frame it holds, or Undefined
    currentFrameIndex,
    pre                 \* preProcessVideo and processBatch: where they are suspended

\* JavaScript's NaN, the value of x % 0.
NaN == 0 - 1

ctlVars == <<phase, videoDuration, currentFrame, consecutiveErrors, lastPixels,
             processingActive, pending, tickIn, cooldowns, sincePause, okRun>>
callVars == <<hasCompleted, pixelBuffer, settlements, timeoutTimer, command,
              outputStream, leaked>>
\* The variables the fixed-tick controllers do not touch.
\* The conversion loop, the startup probe and the frame cache.
convertVars == <<pixelsBuilt, loopIndex>>
probeVars == <<probe, videoInfo, activeUrl>>
cacheVars == <<frameCache, batch>>
preVars == <<preProcessedFrames, currentFrameIndex, pre>>
laterVars == <<convertVars, probeVars, cacheVars, preVars>>
auxVars == <<callVars, retryTimers, probeIn, attempts, response, laterVars>>
vars == <<ctlVars, auxVars>>

NoResponse == [pixels |-> <<>>, frame |-> NaN, errors |-> NaN]

\* The state of the variables of a call before its promise executor ran.
CallFresh ==
    /\ hasCompleted = FALSE
    /\ pixelBuffer = <<>>
    /\ settlements = <<>>
    /\ timeoutTimer = "armed"
    /\ command = "none"
    /\ outputStream = "open"
    /\ leaked = 0
NoProbe == [stage |-> "none"]
NoInfo == [duration |-> 0, metadata |-> FALSE, error |-> FALSE]
NoBatch == [isProcessing |-> FALSE, stage |-> "idle", startFrame |-> 0,
            count |-> 0, index |-> 0, frames |-> 0, runs |-> 0, clock |-> 0,
            failed |-> FALSE]

NoPre == [stage |-> "waiting", isPreProcessing |-> FALSE, totalFrames |-> 0,
          startFrame |-> 0, endFrame |-> 0, frameNum |-> 0,
          promises |-> <<>>, awaited |-> <<>>,
          batchOk |-> TRUE, lastStart |-> 0, lastEnd |-> 0, lastOk |-> TRUE,
          stray |-> 0]
\* The pre-processing variant before preProcessVideo runs.
PreIdle ==
    /\ preProcessedFrames = <<>>
    /\ currentFrameIndex = 0
    /\ pre = NoPre

\* No conversion, no probe and no batch under way.
LaterIdle ==
    /\ pixelsBuilt = <<>>
    /\ loopIndex = NaN
    /\ probe = NoProbe
    /\ videoInfo = NoInfo
    /\ activeUrl = "none"
    /\ frameCache = <<>>
    /\ batch = NoBatch
    /\ PreIdle

\* No adaptive timer, no probe under way, no response being sent.
AuxIdle ==
    /\ CallFresh
    /\ LaterIdle
    /\ retryTimers = <<>>
    /\ probeIn = 0
    /\ attempts = 0
    /\ response = NoResponse

\* ------------------------------------------------------------ helpers
Min(a, b) == IF a <= b THEN a ELSE b
Max(a, b) == IF a >= b THEN a ELSE b
SetMin(S) == CHOOSE x \in S : \A y \in S : x <= y

\* JavaScript arithmetic on the cursor: NaN is absorbing, x % 0 is NaN.
JsAdd(a, b) == IF a = NaN THEN NaN ELSE a + b
JsMod(a, m) == IF a = NaN \/ m = 0 THEN NaN ELSE a % m

\* Math.floor(videoDuration * FPS), videoDuration in seconds.
TotalFramesOf(durMs) == (durMs * FPS) \div 1000
TotalFrames == TotalFramesOf(videoDuration)

\* WIDTH * HEIGHT * 3
ExpectedSize == WIDTH * HEIGHT * 3

\* Byte counts the decoder may deliver.
ByteLens == {0, 2, ExpectedSize}

\* The bytes the decoder delivers for the frame at cursor k (the content of
\* a frame is a function of the frame sought).
FrameBytes(k, len) == [i \in 1..len |-> (16 * ((k + FrameKinds) % FrameKinds) + i - 1) % 256]

\* What the decoder subprocess of one call will do: end its output stream
\* after len bytes, report an error, or hang past the timeout.
DecodeOutcomes(timeout) ==
    {[kind |-> "end", len |-> l, at |-> t] : l \in ByteLens, t \in DecodeTimes}
    \cup {[kind |-> "error", len |-> 0, at |-> t] : t \in DecodeTimes}
    \cup {[kind |-> "hang", len |-> 0, at |-> timeout + 1]}

\* The startup test pattern.
TestPattern ==
    [j \in 1..(WIDTH * HEIGHT) |->
        LET i == j - 1
            x == i % WIDTH
            y == i \div WIDTH
        IN <<(x * 255) \div WIDTH, (y * 255) \div HEIGHT,
             ((x + y) * 255) \div (WIDTH + HEIGHT)>>]

\* The conversion loop of processFrameWithDebug; buf is 1-indexed here,
\* i is the 0-based loop index of the code.
\* Variant: a trailing partial pixel is kept, padded with zero bytes.
RECURSIVE ConvertLoopPadding(_, _, _, _)
ConvertLoopPadding(buf, i, pixels, expectedSize) ==
    IF i < Len(buf) /\ i < expectedSize
    THEN ConvertLoopPadding(buf, i + 3,
                            Append(pixels,
                                   [c \in 1..3 |->
                                       IF i + c <= Len(buf) THEN buf[i + c] ELSE 0]),
                            expectedSize)
    ELSE pixels

\* Variant: the three bytes of a pixel are stored in reverse order.
RECURSIVE ConvertLoopReversed(_, _, _, _)
ConvertLoopReversed(buf, i, pixels, expectedSize) ==
    IF i < Len(buf) /\ i < expectedSize
    THEN ConvertLoopReversed(buf, i + 3,
                             IF i + 2 < Len(buf)
                             THEN Append(pixels, <<buf[i + 3], buf[i + 2], buf[i + 1]>>)
                             ELSE pixels,
                             expectedSize)
    ELSE pixels

RECURSIVE ConvertLoop(_, _, _, _)
ConvertLoop(buf, i, pixels, expectedSize) ==
    IF i < Len(buf) /\ i < expectedSize
    THEN ConvertLoop(buf, i + 3,
                     IF i + 2 < Len(buf)
                     THEN Append(pixels, <<buf[i + 1], buf[i + 2], buf[i + 3]>>)
                     ELSE pixels,
                     expectedSize)
    ELSE pixels
ConvertFrom(buf, i, pixels) == ConvertLoop(buf, i, pixels, ExpectedSize)
Convert(buf) == ConvertFrom(buf, 0, <<>>)

\* ------------------------------------------------------------ debug controller
\* Variants of the early-return test: one ignores the gate, one ignores the
\* pause.
BlockedIgnoringGate == consecutiveErrors > HIGH_THRESHOLD
BlockedIgnoringPause == processingActive

\* The early-return test of processNextFrame.
Blocked == processingActive \/ consecutiveErrors > HIGH_THRESHOLD

\* Variants of the arming test: every blocked tick arms a timer, none does.
ArmsCooldownAlways == TRUE
ArmsCooldownNever == FALSE

\* Whether the blocked tick arms a cooldown timer.
ArmsCooldown == consecutiveErrors > HIGH_THRESHOLD

\* Variant: a success takes one error off the streak.
ErrorsAfterSuccessDecrement(e) == Max(0, e - 1)

\* consecutiveErrors after a decode that delivered pixels.
ErrorsAfterSuccess(e) == 0

\* Variant: the cursor is advanced without wrapping.
CursorAfterResolveNoWrap(c) == JsAdd(c, 1)

\* The cursor after a resolved decode.
CursorAfterResolve(c) == JsMod(JsAdd(c, 1), TotalFrames)

\* Variants: the skip starts one failure earlier; the skip is FPS frames.
CursorAfterRejectEarlySkip(c, e) ==
    IF e >= SKIP_THRESHOLD THEN JsMod(JsAdd(c, FPS * 2), TotalFrames) ELSE c
CursorAfterRejectShortSkip(c, e) ==
    IF e > SKIP_THRESHOLD THEN JsMod(JsAdd(c, FPS), TotalFrames) ELSE c

\* The cursor after a rejected decode; e is the incremented error count.
CursorAfterReject(c, e) ==
    IF e > SKIP_THRESHOLD THEN JsMod(JsAdd(c, FPS * 2), TotalFrames) ELSE c

\* Bookkeeping of the current run of successes.
RunAfterSuccess(c) ==
    IF okRun.n = 0 \/ okRun.n >= MaxRun
    THEN [base |-> c, n |-> 1]
    ELSE [okRun EXCEPT !.n = @ + 1]
NoRun == [base |-> 0, n |-> 0]

\* The pixel sequence the 'end' handler builds for call d.
Delivered(d) == Convert(FrameBytes(d.seek, d.len))

\* Variant: the call seeks the frame after the cursor.
NewCallSeekAhead(o, timeout) ==
    [seek |-> JsAdd(currentFrame, 1), kind |-> o.kind, len |-> o.len,
     doneIn |-> o.at, timeoutIn |-> timeout]

\* A new call of processFrame with a timeout of `timeout` ms.
NewCall(o, timeout) ==
    [seek |-> currentFrame, kind |-> o.kind, len |-> o.len,
     doneIn |-> o.at, timeoutIn |-> timeout]

Init ==
    /\ phase = "probing"
    /\ videoDuration = DEFAULT_DURATION_MS
    /\ currentFrame = 0
    /\ consecutiveErrors = 0
    /\ lastPixels = TestPattern
    /\ processingActive = FALSE
    /\ pending = {}
    /\ tickIn = 0
    /\ cooldowns = {}
    /\ sincePause = 0
    /\ okRun = NoRun
    /\ AuxIdle

\* Variant: with no probe successful the published frame is left empty.
StartupWithoutPattern ==
    /\ phase = "probing"
    /\ \/ /\ phase' = "patternOnly"
          /\ videoDuration' = DEFAULT_DURATION_MS
          /\ lastPixels' = <<>>
          /\ UNCHANGED tickIn
       \/ /\ \E d \in ProbedDurations :
                videoDuration' = IF d = 0 THEN DEFAULT_DURATION_MS ELSE d
          /\ phase' = "running"
          /\ tickIn' = TICK_MS
          /\ UNCHANGED lastPixels
    /\ UNCHANGED <<currentFrame, consecutiveErrors, processingActive,
                   pending, cooldowns, sincePause, okRun>>
    /\ UNCHANGED auxVars

\* The startup block: the probe ends, and the interval is installed only
\* when a probe succeeded (metadata.format.duration || 60).
Startup ==
    /\ phase = "probing"
    /\ \/ /\ phase' = "patternOnly"
          /\ videoDuration' = DEFAULT_DURATION_MS
          /\ UNCHANGED tickIn
       \/ /\ \E d \in ProbedDurations :
                videoDuration' = IF d = 0 THEN DEFAULT_DURATION_MS ELSE d
          /\ phase' = "running"
          /\ tickIn' = TICK_MS
    /\ UNCHANGED <<currentFrame, consecutiveErrors, lastPixels, processingActive,
                   pending, cooldowns, sincePause, okRun>>
    /\ UNCHANGED auxVars

\* One firing of setInterval(processNextFrame, 167): the synchronous part of
\* processNextFrame up to the await.
Tick ==
    /\ phase = "running"
    /\ tickIn = 0
    /\ tickIn' = TICK_MS
    /\ IF Blocked
       THEN /\ cooldowns' = IF ArmsCooldown THEN cooldowns \cup {COOLDOWN_MS}
                                            ELSE cooldowns
            /\ UNCHANGED <<processingActive, pending>>
       ELSE /\ processingActive' = TRUE
            /\ \E o \in DecodeOutcomes(DECODE_TIMEOUT_MS) :
                  pending' = pending \cup {NewCall(o, DECODE_TIMEOUT_MS)}
            /\ UNCHANGED cooldowns
    /\ UNCHANGED <<phase, videoDuration, currentFrame, consecutiveErrors,
                   lastPixels, sincePause, okRun>>
    /\ UNCHANGED auxVars

\* A cooldown timer fires.
CooldownFire ==
    /\ 0 \in cooldowns
    /\ cooldowns' = cooldowns \ {0}
    /\ consecutiveErrors' = 0
    /\ sincePause' = 0
    /\ UNCHANGED <<phase, videoDuration, currentFrame, lastPixels,
                   processingActive, pending, tickIn, okRun>>
    /\ UNCHANGED auxVars

\* The continuation of processNextFrame after the promise resolved.
AfterResolve(d, pixels) ==
    /\ IF Len(pixels) > 0
       THEN /\ lastPixels' = pixels
            /\ consecutiveErrors' = ErrorsAfterSuccess(consecutiveErrors)
            /\ okRun' = RunAfterSuccess(currentFrame)
       ELSE /\ consecutiveErrors' = consecutiveErrors + 1
            /\ okRun' = NoRun
            /\ UNCHANGED lastPixels
    /\ currentFrame' = CursorAfterResolve(currentFrame)
    /\ processingActive' = FALSE
    /\ pending' = pending \ {d}
    /\ sincePause' = 0
    /\ UNCHANGED <<phase, videoDuration, tickIn, cooldowns>>
    /\ UNCHANGED auxVars

\* Variant: a rejected decode blanks the published frame.
AfterRejectClearing(d) ==
    /\ consecutiveErrors' = consecutiveErrors + 1
    /\ currentFrame' = CursorAfterReject(currentFrame, consecutiveErrors + 1)
    /\ processingActive' = FALSE
    /\ pending' = pending \ {d}
    /\ okRun' = NoRun
    /\ sincePause' = 0
    /\ lastPixels' = <<>>
    /\ UNCHANGED <<phase, videoDuration, tickIn, cooldowns>>
    /\ UNCHANGED auxVars

\* The continuation of processNextFrame after the promise rejected.
AfterReject(d) ==
    /\ consecutiveErrors' = consecutiveErrors + 1
    /\ currentFrame' = CursorAfterReject(currentFrame, consecutiveErrors + 1)
    /\ processingActive' = FALSE
    /\ pending' = pending \ {d}
    /\ okRun' = NoRun
    /\ sincePause' = 0
    /\ UNCHANGED <<phase, videoDuration, lastPixels, tickIn, cooldowns>>
    /\ UNCHANGED auxVars

\* The output stream ends: an empty buffer rejects, anything else is
\* converted and resolves.
DecodeEnd ==
    \E d \in pending :
        /\ d.kind = "end"
        /\ d.doneIn = 0
        /\ IF d.len = 0
           THEN AfterReject(d)
           ELSE AfterResolve(d, Delivered(d))

\* The output stream or ffmpeg reports an error.
DecodeError ==
    \E d \in pending :
        /\ d.kind = "error"
        /\ d.doneIn = 0
        /\ AfterReject(d)

\* The 15 s timeout of processFrameWithDebug fires first.
DecodeTimeout ==
    \E d \in pending :
        /\ d.timeoutIn = 0
        /\ AfterReject(d)

\* Time passes up to the next timer or stream event.
Deadlines ==
    {tickIn} \cup cooldowns \cup {d.doneIn : d \in pending}
             \cup {d.timeoutIn : d \in pending}
Elapse(dt) ==
    /\ tickIn' = tickIn - dt
    /\ cooldowns' = {c - dt : c \in cooldowns}
    /\ pending' = {[d EXCEPT !.doneIn = @ - dt, !.timeoutIn = @ - dt] : d \in pending}
    /\ UNCHANGED <<phase, videoDuration, currentFrame, consecutiveErrors,
                   lastPixels, processingActive, okRun>>
    /\ UNCHANGED auxVars
Advance ==
    /\ phase = "running"
    /\ \A x \in Deadlines : x > 0
    /\ LET dt == SetMin(Deadlines) IN
        /\ Elapse(dt)
        /\ sincePause' = IF consecutiveErrors > HIGH_THRESHOLD
                         THEN Min(sincePause + dt, COOLDOWN_MS + TICK_MS)
                         ELSE 0

Next ==
    \/ Startup
    \/ Tick
    \/ CooldownFire
    \/ DecodeEnd
    \/ DecodeError
    \/ DecodeTimeout
    \/ Advance

Spec == Init /\ [][Next]_vars

\* The timers of the event loop fire and the subprocess events are
\* delivered: no enabled step is postponed forever.
FairSpec == Spec /\ WF_vars(Next)

\* ------------------------------------------------------------ quality-mode controller
\* The gradient test pattern of the quality-mode variant.
QualityTestPattern ==
    [j \in 1..(WIDTH * HEIGHT) |->
        LET i == j - 1
            x == i % WIDTH
            y == i \div WIDTH
        IN <<(x * 255) \div WIDTH, (y * 255) \div HEIGHT, 150>>]

\* Variant: a success clears the streak.
QualityErrorsAfterSuccessReset(e) == 0

\* consecutiveErrors after a decode that delivered pixels.
QualityErrorsAfterSuccess(e) == Max(0, e - 1)

\* The state when the startup block awaits getVideoDuration.
QualityInit ==
    /\ phase = "probing"
    /\ videoDuration = 0
    /\ currentFrame = 0
    /\ consecutiveErrors = 0
    /\ lastPixels = QualityTestPattern
    /\ processingActive = FALSE
    /\ pending = {}
    /\ tickIn = 0
    /\ cooldowns = {}
    /\ sincePause = 0
    /\ okRun = NoRun
    /\ AuxIdle

\* getVideoDuration resolves and startOptimizedProcessing installs the
\* interval.
QualityStartup ==
    /\ phase = "probing"
    /\ \E d \in ProbedDurations : videoDuration' = d
    /\ phase' = "running"
    /\ tickIn' = TICK_MS
    /\ UNCHANGED <<currentFrame, consecutiveErrors, lastPixels, processingActive,
                   pending, cooldowns, sincePause, okRun>>
    /\ UNCHANGED auxVars

\* One firing of the interval: processNextFrame of startOptimizedProcessing
\* up to the await.
QualityTick ==
    /\ phase = "running"
    /\ tickIn = 0
    /\ tickIn' = TICK_MS
    /\ IF processingActive \/ consecutiveErrors > QUALITY_HIGH_THRESHOLD
       THEN /\ cooldowns' = IF consecutiveErrors > QUALITY_HIGH_THRESHOLD
                            THEN cooldowns \cup {QUALITY_COOLDOWN_MS}
                            ELSE cooldowns
            /\ UNCHANGED <<processingActive, pending>>
       ELSE /\ processingActive' = TRUE
            /\ \E o \in DecodeOutcomes(QUALITY_TIMEOUT_MS) :
                  pending' = pending \cup {NewCall(o, QUALITY_TIMEOUT_MS)}
            /\ UNCHANGED cooldowns
    /\ UNCHANGED <<phase, videoDuration, currentFrame, consecutiveErrors,
                   lastPixels, sincePause, okRun>>
    /\ UNCHANGED auxVars

\* A 5 s timer armed by a blocked tick fires.
QualityCooldownFire ==
    /\ 0 \in cooldowns
    /\ cooldowns' = cooldowns \ {0}
    /\ consecutiveErrors' = Max(0, consecutiveErrors - QUALITY_COOLDOWN_STEP)
    /\ UNCHANGED <<phase, videoDuration, currentFrame, lastPixels,
                   processingActive, pending, tickIn, sincePause, okRun>>
    /\ UNCHANGED auxVars

\* The continuation after processFrame resolved.
QualityAfterResolve(d, pixels) ==
    /\ IF Len(pixels) > 0
       THEN /\ lastPixels' = pixels
            /\ consecutiveErrors' = QualityErrorsAfterSuccess(consecutiveErrors)
       ELSE UNCHANGED <<lastPixels, consecutiveErrors>>
    /\ currentFrame' = JsMod(JsAdd(currentFrame, 1), TotalFrames)
    /\ processingActive' = FALSE
    /\ pending' = pending \ {d}
    /\ UNCHANGED <<phase, videoDuration, tickIn, cooldowns, sincePause, okRun>>
    /\ UNCHANGED auxVars

\* The continuation after processFrame rejected.
QualityAfterReject(d) ==
    /\ consecutiveErrors' = consecutiveErrors + 1
    /\ currentFrame' = IF consecutiveErrors + 1 > QUALITY_SKIP_THRESHOLD
                       THEN JsMod(JsAdd(currentFrame, FPS), TotalFrames)
                       ELSE currentFrame
    /\ processingActive' = FALSE
    /\ pending' = pending \ {d}
    /\ UNCHANGED <<phase, videoDuration, lastPixels, tickIn, cooldowns,
                   sincePause, okRun>>
    /\ UNCHANGED auxVars

\* The output stream ends: whatever was received is converted and resolves.
QualityDecodeEnd ==
    \E d \in pending :
        /\ d.kind = "end"
        /\ d.doneIn = 0
        /\ QualityAfterResolve(d, Delivered(d))

\* The output stream or ffmpeg reports an error.
QualityDecodeError ==
    \E d \in pending :
        /\ d.kind = "error"
        /\ d.doneIn = 0
        /\ QualityAfterReject(d)

\* The 8 s timeout of processFrame fires first.
QualityDecodeTimeout ==
    \E d \in pending :
        /\ d.timeoutIn = 0
        /\ QualityAfterReject(d)

\* Time passes up to the next timer or stream event.
QualityAdvance ==
    /\ phase = "running"
    /\ \A x \in Deadlines : x > 0
    /\ Elapse(SetMin(Deadlines))
    /\ UNCHANGED sincePause

QualityNext ==
    \/ QualityStartup
    \/ QualityTick
    \/ QualityCooldownFire
    \/ QualityDecodeEnd
    \/ QualityDecodeError
    \/ QualityDecodeTimeout
    \/ QualityAdvance

QualitySpec == QualityInit /\ [][QualityNext]_vars

\* ------------------------------------------------------------ one call of processFrameWithDebug
\* Longest chunk the output stream delivers, bytes the subprocess may write
\* beyond a full frame, and subprocesses of earlier calls followed.
MaxChunk == 2
MaxExtraBytes == 1
MaxLeaked == 2

ByteValues == {0, 255}
Chunks == UNION {[1..n -> ByteValues] : n \in 1..MaxChunk}

RejectWith(why) == [kind |-> "reject", why |-> why, pixels |-> <<>>]
ResolveWith(pixels) == [kind |-> "resolve", why |-> "", pixels |-> pixels]

\* Variant: the 'data' handler appends whatever arrives.
AccumulateUnguarded(buf, chunk) == buf \o chunk

\* The 'data' handler.
Accumulate(buf, chunk) == IF hasCompleted THEN buf ELSE buf \o chunk

\* clearTimeout(timeout)
ClearTimeout == IF timeoutTimer = "armed" THEN "cleared" ELSE timeoutTimer

\* The guarded body shared by the error handlers and the catch block.
RejectOnce(why) ==
    IF hasCompleted
    THEN UNCHANGED <<hasCompleted, timeoutTimer, settlements>>
    ELSE /\ hasCompleted' = TRUE
         /\ timeoutTimer' = ClearTimeout
         /\ settlements' = Append(settlements, RejectWith(why))

\* The executor's try block: the command is built and piped, or building
\* it throws.
SetupCall ==
    /\ command = "none"
    /\ \/ /\ command' = "running"
          /\ UNCHANGED <<hasCompleted, timeoutTimer, settlements>>
       \/ /\ command' = "failed"
          /\ RejectOnce("setup")
    /\ UNCHANGED <<pixelBuffer, outputStream, leaked>>
    /\ UNCHANGED <<ctlVars, retryTimers, probeIn, attempts, response, laterVars>>

\* The 15 s timer fires.
OnTimeout ==
    /\ command # "none"
    /\ timeoutTimer = "armed"
    /\ timeoutTimer' = "fired"
    /\ IF hasCompleted
       THEN UNCHANGED <<hasCompleted, settlements>>
       ELSE /\ hasCompleted' = TRUE
            /\ settlements' = Append(settlements, RejectWith("timeout"))
    /\ UNCHANGED <<pixelBuffer, command, outputStream, leaked>>
    /\ UNCHANGED <<ctlVars, retryTimers, probeIn, attempts, response, laterVars>>

\* outputStream 'data'
OnData ==
    /\ command \in {"running", "exited"}
    /\ outputStream = "open"
    /\ \E chunk \in Chunks :
          /\ Len(pixelBuffer) + Len(chunk) <= ExpectedSize + MaxExtraBytes
          /\ pixelBuffer' = Accumulate(pixelBuffer, chunk)
    /\ UNCHANGED <<hasCompleted, settlements, timeoutTimer, command,
                   outputStream, leaked>>
    /\ UNCHANGED <<ctlVars, retryTimers, probeIn, attempts, response, laterVars>>

\* outputStream 'end'
OnEnd ==
    /\ command \in {"running", "exited"}
    /\ outputStream = "open"
    /\ outputStream' = "ended"
    /\ IF hasCompleted
       THEN UNCHANGED <<hasCompleted, timeoutTimer, settlements>>
       ELSE /\ hasCompleted' = TRUE
            /\ timeoutTimer' = ClearTimeout
            /\ settlements' =
                  Append(settlements,
                         IF Len(pixelBuffer) = 0
                         THEN RejectWith("empty")
                         ELSE ResolveWith(Convert(pixelBuffer)))
    /\ UNCHANGED <<pixelBuffer, command, leaked>>
    /\ UNCHANGED <<ctlVars, retryTimers, probeIn, attempts, response, laterVars>>

\* outputStream 'error'
OnStreamError ==
    /\ command \in {"running", "exited"}
    /\ outputStream = "open"
    /\ outputStream' = "errored"
    /\ RejectOnce("stream")
    /\ UNCHANGED <<pixelBuffer, command, leaked>>
    /\ UNCHANGED <<ctlVars, retryTimers, probeIn, attempts, response, laterVars>>

\* The command's 'error': the subprocess failed.
OnFfmpegError ==
    /\ command = "running"
    /\ command' = "exited"
    /\ RejectOnce("ffmpeg")
    /\ UNCHANGED <<pixelBuffer, outputStream, leaked>>
    /\ UNCHANGED <<ctlVars, retryTimers, probeIn, attempts, response, laterVars>>

\* The subprocess exits normally (the command's 'end', which has no handler).
ProcessExits ==
    /\ command = "running"
    /\ command' = "exited"
    /\ UNCHANGED <<hasCompleted, pixelBuffer, settlements, timeoutTimer,
                   outputStream, leaked>>
    /\ UNCHANGED <<ctlVars, retryTimers, probeIn, attempts, response, laterVars>>

\* The promise has settled, processNextFrame released the gate and a later
\* tick calls processFrameWithDebug again; nothing stopped the subprocess of
\* the call before.
CallAgain ==
    /\ hasCompleted
    /\ command = "running" => leaked < MaxLeaked
    /\ leaked' = IF command = "running" THEN leaked + 1 ELSE leaked
    /\ hasCompleted' = FALSE
    /\ pixelBuffer' = <<>>
    /\ settlements' = <<>>
    /\ timeoutTimer' = "armed"
    /\ command' = "none"
    /\ outputStream' = "open"
    /\ UNCHANGED <<ctlVars, retryTimers, probeIn, attempts, response, laterVars>>

\* A subprocess of an earlier call exits by itself.
LeakedExits ==
    /\ leaked > 0
    /\ leaked' = leaked - 1
    /\ UNCHANGED <<hasCompleted, pixelBuffer, settlements, timeoutTimer,
                   command, outputStream>>
    /\ UNCHANGED <<ctlVars, retryTimers, probeIn, attempts, response, laterVars>>

CallNext ==
    \/ SetupCall
    \/ OnTimeout
    \/ OnData
    \/ OnEnd
    \/ OnStreamError
    \/ OnFfmpegError
    \/ ProcessExits
    \/ CallAgain
    \/ LeakedExits

\* The calls of processFrameWithDebug the debug controller makes one after
\* the other, each followed event by event.
CallSpec == Init /\ [][CallNext]_vars

\* ------------------------------------------------------------ simple controller
\* The first startProcessing of server.js: FPS = 10, no error counter, no
\* timeout.  Its gate isProcessing is the variable processingActive here.
SIMPLE_FPS == 10
SIMPLE_TICK_MS == 100
\* Decodes followed at the same time.
MaxInFlight == 2

\* A byte read beyond the end of the buffer.
Undefined == 0 - 2

\* Math.floor(videoDuration * FPS)
SimpleTotalFrames == (videoDuration * SIMPLE_FPS) \div 1000

\* Times (ms) after which a subprocess finishes; 100 ms is one tick period.
SimpleDecodeTimes == {20, 100, 250}

\* What the subprocess of one attempt will do: end its output after len
\* bytes, fail without output (the command emits 'error', and the stream
\* its stdout is piped into may end as well), or hang.
SimpleOutcomes ==
    {[evs |-> {"end"}, len |-> l, at |-> t] : l \in ByteLens, t \in SimpleDecodeTimes}
    \cup {[evs |-> e, len |-> 0, at |-> t] :
            e \in {{"error"}, {"end", "error"}}, t \in SimpleDecodeTimes}
    \cup {[evs |-> {}, len |-> 0, at |-> 0]}

\* The rainbow test pattern shown when no video URL is configured.
SimpleTestPattern ==
    [j \in 1..(WIDTH * HEIGHT) |->
        LET i == j - 1
            x == i % WIDTH
            y == i \div WIDTH
        IN <<(x * 255) \div WIDTH, (y * 255) \div HEIGHT, 128>>]

\* The conversion loop of the 'end' handler: no bounds test, so the last
\* triplet reads past the buffer when its length is no multiple of 3.
RECURSIVE SimpleConvertFrom(_, _, _)
SimpleConvertFrom(buf, i, pixels) ==
    IF i < Len(buf)
    THEN SimpleConvertFrom(buf, i + 3,
            Append(pixels,
                   <<buf[i + 1],
                     IF i + 1 < Len(buf) THEN buf[i + 2] ELSE Undefined,
                     IF i + 2 < Len(buf) THEN buf[i + 3] ELSE Undefined>>))
    ELSE pixels
SimpleConvert(buf) == SimpleConvertFrom(buf, 0, <<>>)

\* An attempt started now: the events still to come, those delivered, and
\* the time to them.
SimpleAttempt(o) ==
    [seek |-> currentFrame, len |-> o.len, evs |-> o.evs, seen |-> {},
     doneIn |-> o.at]

\* The attempts after event ev of attempt d was delivered.
AfterEvent(d, ev) ==
    IF d.evs = {ev}
    THEN pending \ {d}
    ELSE (pending \ {d}) \cup {[d EXCEPT !.evs = @ \ {ev}, !.seen = @ \cup {ev}]}

SimpleInit ==
    /\ phase = "probing"
    /\ videoDuration = 0
    /\ currentFrame = 0
    /\ lastPixels = <<>>
    /\ processingActive = FALSE
    /\ pending = {}
    /\ tickIn = 0
    /\ consecutiveErrors = 0
    /\ cooldowns = {}
    /\ sincePause = 0
    /\ okRun = NoRun
    /\ AuxIdle

\* getVideoDuration resolves; the interval is installed when a video URL
\* is configured, else the test pattern is published.
SimpleStartup ==
    /\ phase = "probing"
    /\ \E d \in ProbedDurations : videoDuration' = d
    /\ \/ /\ phase' = "running"
          /\ tickIn' = SIMPLE_TICK_MS
          /\ UNCHANGED lastPixels
       \/ /\ phase' = "patternOnly"
          /\ lastPixels' = SimpleTestPattern
          /\ UNCHANGED tickIn
    /\ UNCHANGED <<currentFrame, processingActive, pending>>
    /\ UNCHANGED <<consecutiveErrors, cooldowns, sincePause, okRun, auxVars>>

\* One firing of the interval.
SimpleTick ==
    /\ phase = "running"
    /\ tickIn = 0
    /\ tickIn' = SIMPLE_TICK_MS
    /\ IF processingActive \/ videoDuration = 0
       THEN UNCHANGED <<processingActive, pending>>
       ELSE /\ Cardinality(pending) < MaxInFlight
            /\ processingActive' = TRUE
            /\ \E o \in SimpleOutcomes : pending' = pending \cup {SimpleAttempt(o)}
    /\ UNCHANGED <<phase, videoDuration, currentFrame, lastPixels>>
    /\ UNCHANGED <<consecutiveErrors, cooldowns, sincePause, okRun, auxVars>>

\* outputStream 'end'
SimpleEnd ==
    /\ \E d \in pending :
          /\ d.doneIn = 0
          /\ "end" \in d.evs
          /\ lastPixels' = SimpleConvert(FrameBytes(d.seek, d.len))
          /\ pending' = AfterEvent(d, "end")
    /\ currentFrame' = JsMod(JsAdd(currentFrame, 1), SimpleTotalFrames)
    /\ processingActive' = FALSE
    /\ UNCHANGED <<phase, videoDuration, tickIn>>
    /\ UNCHANGED <<consecutiveErrors, cooldowns, sincePause, okRun, auxVars>>

\* The command's 'error'
SimpleError ==
    /\ \E d \in pending :
          /\ d.doneIn = 0
          /\ "error" \in d.evs
          /\ pending' = AfterEvent(d, "error")
    /\ processingActive' = FALSE
    /\ UNCHANGED <<phase, videoDuration, currentFrame, lastPixels, tickIn>>
    /\ UNCHANGED <<consecutiveErrors, cooldowns, sincePause, okRun, auxVars>>

\* Time passes up to the next tick or subprocess event.
SimpleDeadlines == {tickIn} \cup {d.doneIn : d \in {a \in pending : a.evs # {}}}
SimpleAdvance ==
    /\ phase = "running"
    /\ \A x \in SimpleDeadlines : x > 0
    /\ LET dt == SetMin(SimpleDeadlines) IN
        /\ tickIn' = tickIn - dt
        /\ pending' = {IF d.evs = {} THEN d ELSE [d EXCEPT !.doneIn = @ - dt] :
                         d \in pending}
    /\ UNCHANGED <<phase, videoDuration, currentFrame, lastPixels, processingActive>>
    /\ UNCHANGED <<consecutiveErrors, cooldowns, sincePause, okRun, auxVars>>

SimpleNext ==
    \/ SimpleStartup
    \/ SimpleTick
    \/ SimpleEnd
    \/ SimpleError
    \/ SimpleAdvance

SimpleSpec == SimpleInit /\ [][SimpleNext]_vars

\* The interval keeps firing and delivered events are handled.
SimpleFairSpec == SimpleSpec /\ WF_vars(SimpleNext)

\* ------------------------------------------------------------ adaptive controller
\* startAdaptiveProcessing: no interval; each attempt schedules the next.
START_DELAY_MS == 1000
MIN_DELAY_MS == 50
ERROR_DELAY_MS == 1000
\* Pending setTimeout(processFrame) calls followed at the same time, and
\* attempts followed in one run.
MaxTimers == 3
MaxAttempts == 4

\* Times (ms) getVideoDuration takes: less and more than the start delay.
ProbeTimes == {300, 1500}
\* Times (ms) after which a subprocess finishes.
AdaptiveDecodeTimes == {20, 250}

\* What the subprocess of one attempt will do (as for the simple
\* controller, which has the same handlers).
AdaptiveOutcomes ==
    {[evs |-> {"end"}, len |-> l, at |-> t] : l \in ByteLens, t \in AdaptiveDecodeTimes}
    \cup {[evs |-> e, len |-> 0, at |-> t] :
            e \in {{"error"}, {"end", "error"}}, t \in AdaptiveDecodeTimes}
    \cup {[evs |-> {}, len |-> 0, at |-> 0]}

\* Variant: the delay has no lower limit but the timer's own 1 ms.
AdaptiveDelayNoFloor(processingTime) ==
    Max(1, (1000 - processingTime * FPS) \div FPS)

\* Math.max(50, 1000 / FPS - processingTime), in the whole milliseconds a
\* timer counts.
AdaptiveDelay(processingTime) ==
    Max(MIN_DELAY_MS, (1000 - processingTime * FPS) \div FPS)

\* An attempt started now; took is Date.now() - frameStart at its events.
AdaptiveAttempt(o) ==
    [seek |-> currentFrame, len |-> o.len, evs |-> o.evs, seen |-> {},
     doneIn |-> o.at, took |-> o.at]

\* The timers without the i-th.
WithoutTimer(i) ==
    [j \in 1..(Len(retryTimers) - 1) |->
        IF j < i THEN retryTimers[j] ELSE retryTimers[j + 1]]

AdaptiveInit ==
    /\ phase = "probing"
    /\ videoDuration = 0
    /\ currentFrame = 0
    /\ lastPixels = <<>>
    /\ processingActive = FALSE
    /\ pending = {}
    /\ retryTimers = <<START_DELAY_MS>>
    /\ probeIn \in ProbeTimes
    /\ attempts = 0
    /\ tickIn = 0
    /\ consecutiveErrors = 0
    /\ cooldowns = {}
    /\ sincePause = 0
    /\ okRun = NoRun
    /\ CallFresh
    /\ LaterIdle
    /\ response = NoResponse

\* getVideoDuration resolves.
AdaptiveProbeDone ==
    /\ phase = "probing"
    /\ probeIn = 0
    /\ phase' = "running"
    /\ \E d \in ProbedDurations : videoDuration' = d
    /\ UNCHANGED <<currentFrame, lastPixels, processingActive, pending,
                   retryTimers, probeIn>>
    /\ UNCHANGED <<tickIn, consecutiveErrors, cooldowns, sincePause, okRun,
                   callVars, attempts, response, laterVars>>

\* A timer calls processFrame (the first call is startAdaptiveProcessing's).
ProcessFrame ==
    /\ \E i \in 1..Len(retryTimers) :
          /\ retryTimers[i] = 0
          /\ retryTimers' = WithoutTimer(i)
    /\ IF processingActive \/ videoDuration = 0
       THEN UNCHANGED <<processingActive, pending, attempts>>
       ELSE /\ Cardinality(pending) < MaxInFlight
            /\ attempts < MaxAttempts
            /\ attempts' = attempts + 1
            /\ processingActive' = TRUE
            /\ \E o \in AdaptiveOutcomes :
                  pending' = pending \cup {AdaptiveAttempt(o)}
    /\ UNCHANGED <<phase, videoDuration, currentFrame, lastPixels, probeIn>>
    /\ UNCHANGED <<tickIn, consecutiveErrors, cooldowns, sincePause, okRun,
                   callVars, response, laterVars>>

\* outputStream 'end'
AdaptiveEnd ==
    /\ Len(retryTimers) < MaxTimers
    /\ \E d \in pending :
          /\ d.doneIn = 0
          /\ "end" \in d.evs
          /\ lastPixels' = SimpleConvert(FrameBytes(d.seek, d.len))
          /\ pending' = AfterEvent(d, "end")
          /\ retryTimers' = Append(retryTimers, AdaptiveDelay(d.took))
    /\ currentFrame' = JsMod(JsAdd(currentFrame, 1), TotalFrames)
    /\ processingActive' = FALSE
    /\ UNCHANGED <<phase, videoDuration, probeIn>>
    /\ UNCHANGED <<tickIn, consecutiveErrors, cooldowns, sincePause, okRun,
                   callVars, attempts, response, laterVars>>

\* The command's 'error'
AdaptiveError ==
    /\ Len(retryTimers) < MaxTimers
    /\ \E d \in pending :
          /\ d.doneIn = 0
          /\ "error" \in d.evs
          /\ pending' = AfterEvent(d, "error")
    /\ processingActive' = FALSE
    /\ retryTimers' = Append(retryTimers, ERROR_DELAY_MS)
    /\ UNCHANGED <<phase, videoDuration, currentFrame, lastPixels, probeIn>>
    /\ UNCHANGED <<tickIn, consecutiveErrors, cooldowns, sincePause, okRun,
                   callVars, attempts, response, laterVars>>

\* Time passes up to the next timer, subprocess event or probe result.
AdaptiveDeadlines ==
    {retryTimers[i] : i \in 1..Len(retryTimers)}
        \cup {d.doneIn : d \in {a \in pending : a.evs # {}}}
        \cup (IF phase = "probing" THEN {probeIn} ELSE {})
AdaptiveAdvance ==
    /\ AdaptiveDeadlines # {}
    /\ \A x \in AdaptiveDeadlines : x > 0
    /\ LET dt == SetMin(AdaptiveDeadlines) IN
        /\ retryTimers' = [i \in 1..Len(retryTimers) |-> retryTimers[i] - dt]
        /\ pending' = {IF d.evs = {} THEN d ELSE [d EXCEPT !.doneIn = @ - dt] :
                         d \in pending}
        /\ probeIn' = IF phase = "probing" THEN probeIn - dt ELSE probeIn
    /\ UNCHANGED <<phase, videoDuration, currentFrame, lastPixels, processingActive>>
    /\ UNCHANGED <<tickIn, consecutiveErrors, cooldowns, sincePause, okRun,
                   callVars, attempts, response, laterVars>>

AdaptiveNext ==
    \/ AdaptiveProbeDone
    \/ ProcessFrame
    \/ AdaptiveEnd
    \/ AdaptiveError
    \/ AdaptiveAdvance

AdaptiveSpec == AdaptiveInit /\ [][AdaptiveNext]_vars

\* ------------------------------------------------------------ /frame of the debug variant
\* Variant: the handler answers only while no decode is in flight.
ReadFrameWhenIdle ==
    /\ ~processingActive
    /\ response' = [pixels |-> lastPixels, frame |-> currentFrame,
                    errors |-> consecutiveErrors]
    /\ UNCHANGED <<ctlVars, callVars, retryTimers, probeIn, attempts, laterVars>>

\* app.get('/frame'): the handler builds the body from the module state.
ReadFrame ==
    /\ response' = [pixels |-> lastPixels, frame |-> currentFrame,
                    errors |-> consecutiveErrors]
    /\ UNCHANGED <<ctlVars, callVars, retryTimers, probeIn, attempts, laterVars>>

\* res.json hands the body to the connection.
SendResponse ==
    /\ response # NoResponse
    /\ response' = NoResponse
    /\ UNCHANGED <<ctlVars, callVars, retryTimers, probeIn, attempts, laterVars>>

\* The handler is synchronous: no time passes before the body is sent.
ReadAdvance ==
    /\ response = NoResponse
    /\ Advance

ReadNext ==
    \/ Startup
    \/ Tick
    \/ CooldownFire
    \/ DecodeEnd
    \/ DecodeError
    \/ DecodeTimeout
    \/ ReadAdvance
    \/ ReadFrame
    \/ SendResponse

\* The debug controller together with requests for /frame.
ReadSpec == Init /\ [][ReadNext]_vars

\* ------------------------------------------------------------ publishing a frame
\* The 'end' handler of processFrameWithDebug with its conversion loop
\* followed iteration by iteration, the continuation of processNextFrame
\* that publishes the result, and requests for /frame at any point between.
\* (The handler runs to completion in the program; a request served between
\* two iterations is more than the event loop allows.)
PublishLens == {0, 2, ExpectedSize - 1, ExpectedSize, ExpectedSize + MaxExtraBytes}
PublishBuffers ==
    {[i \in 1..n |-> i - 1] : n \in PublishLens}
        \cup {[i \in 1..n |-> 255 - (i - 1)] : n \in PublishLens}

\* The state in which the first call has received its output.
PublishInit ==
    /\ phase = "running"
    /\ videoDuration \in ProbedDurations
    /\ currentFrame = 0
    /\ consecutiveErrors = 0
    /\ lastPixels = TestPattern
    /\ processingActive = TRUE
    /\ pending = {}
    /\ tickIn = 0
    /\ cooldowns = {}
    /\ sincePause = 0
    /\ okRun = NoRun
    /\ hasCompleted = FALSE
    /\ pixelBuffer \in PublishBuffers
    /\ settlements = <<>>
    /\ timeoutTimer = "armed"
    /\ command = "running"
    /\ outputStream = "open"
    /\ leaked = 0
    /\ retryTimers = <<>>
    /\ probeIn = 0
    /\ attempts = 0
    /\ response = NoResponse
    /\ LaterIdle

\* Variant: an empty buffer is converted like any other and resolves.
EndBeginsConvertingEmpty ==
    /\ outputStream = "open"
    /\ ~hasCompleted
    /\ outputStream' = "ended"
    /\ hasCompleted' = TRUE
    /\ timeoutTimer' = ClearTimeout
    /\ pixelsBuilt' = <<>>
    /\ loopIndex' = 0
    /\ UNCHANGED settlements
    /\ UNCHANGED <<ctlVars, pixelBuffer, command, leaked, retryTimers, probeIn,
                   attempts, response, probeVars, cacheVars, preVars>>

\* outputStream 'end', up to the loop (or to the rejection of an empty
\* buffer).
EndBegins ==
    /\ outputStream = "open"
    /\ ~hasCompleted
    /\ outputStream' = "ended"
    /\ hasCompleted' = TRUE
    /\ timeoutTimer' = ClearTimeout
    /\ IF Len(pixelBuffer) = 0
       THEN /\ settlements' = Append(settlements, RejectWith("empty"))
            /\ UNCHANGED <<pixelsBuilt, loopIndex>>
       ELSE /\ pixelsBuilt' = <<>>
            /\ loopIndex' = 0
            /\ UNCHANGED settlements
    /\ UNCHANGED <<ctlVars, pixelBuffer, command, leaked, retryTimers, probeIn,
                   attempts, response, probeVars, cacheVars, preVars>>

\* Variant: the loop builds the frame in lastPixels itself.
ConvertStepInPlace ==
    /\ loopIndex # NaN
    /\ loopIndex < Len(pixelBuffer) /\ loopIndex < ExpectedSize
    /\ pixelsBuilt' =
          IF loopIndex + 2 < Len(pixelBuffer)
          THEN Append(pixelsBuilt, <<pixelBuffer[loopIndex + 1],
                                     pixelBuffer[loopIndex + 2],
                                     pixelBuffer[loopIndex + 3]>>)
          ELSE pixelsBuilt
    /\ lastPixels' = pixelsBuilt'
    /\ loopIndex' = loopIndex + 3
    /\ UNCHANGED <<phase, videoDuration, currentFrame, consecutiveErrors,
                   processingActive, pending, tickIn, cooldowns, sincePause, okRun>>
    /\ UNCHANGED <<callVars, retryTimers, probeIn, attempts, response,
                   probeVars, cacheVars, preVars>>

\* One iteration of the loop.
ConvertStep ==
    /\ loopIndex # NaN
    /\ loopIndex < Len(pixelBuffer) /\ loopIndex < ExpectedSize
    /\ pixelsBuilt' =
          IF loopIndex + 2 < Len(pixelBuffer)
          THEN Append(pixelsBuilt, <<pixelBuffer[loopIndex + 1],
                                     pixelBuffer[loopIndex + 2],
                                     pixelBuffer[loopIndex + 3]>>)
          ELSE pixelsBuilt
    /\ loopIndex' = loopIndex + 3
    /\ UNCHANGED <<ctlVars, callVars, retryTimers, probeIn, attempts, response,
                   probeVars, cacheVars, preVars>>

\* The loop is left and the promise resolves with the array.
ConvertDone ==
    /\ loopIndex # NaN
    /\ ~(loopIndex < Len(pixelBuffer) /\ loopIndex < ExpectedSize)
    /\ settlements' = Append(settlements, ResolveWith(pixelsBuilt))
    /\ loopIndex' = NaN
    /\ UNCHANGED <<ctlVars, hasCompleted, pixelBuffer, timeoutTimer, command,
                   outputStream, leaked, pixelsBuilt, retryTimers, probeIn,
                   attempts, response, probeVars, cacheVars, preVars>>

\* The continuation of processNextFrame after the await.
PublishContinue ==
    /\ processingActive
    /\ settlements # <<>>
    /\ LET o == settlements[1] IN
         IF o.kind = "resolve"
         THEN /\ IF Len(o.pixels) > 0
                 THEN /\ lastPixels' = o.pixels
                      /\ consecutiveErrors' = ErrorsAfterSuccess(consecutiveErrors)
                 ELSE /\ consecutiveErrors' = consecutiveErrors + 1
                      /\ UNCHANGED lastPixels
              /\ currentFrame' = CursorAfterResolve(currentFrame)
         ELSE /\ consecutiveErrors' = consecutiveErrors + 1
              /\ currentFrame' = CursorAfterReject(currentFrame, consecutiveErrors + 1)
              /\ UNCHANGED lastPixels
    /\ processingActive' = FALSE
    /\ UNCHANGED <<phase, videoDuration, pending, tickIn, cooldowns, sincePause, okRun>>
    /\ UNCHANGED auxVars

\* A later tick calls processFrameWithDebug again and its output arrives
\* (time passes, so the body of an answered request has been sent).
PublishNextCall ==
    /\ ~Blocked
    /\ response = NoResponse
    /\ processingActive' = TRUE
    /\ hasCompleted' = FALSE
    /\ pixelBuffer' \in PublishBuffers
    /\ settlements' = <<>>
    /\ timeoutTimer' = "armed"
    /\ outputStream' = "open"
    /\ UNCHANGED <<phase, videoDuration, currentFrame, consecutiveErrors,
                   lastPixels, pending, tickIn, cooldowns, sincePause, okRun>>
    /\ UNCHANGED <<command, leaked, retryTimers, probeIn, attempts, response,
                   laterVars>>

PublishNext ==
    \/ EndBegins
    \/ ConvertStep
    \/ ConvertDone
    \/ PublishContinue
    \/ PublishNextCall
    \/ ReadFrame
    \/ SendResponse

PublishSpec == PublishInit /\ [][PublishNext]_vars

\* ------------------------------------------------------------ probing at startup
\* analyzeVideo, runFFprobe and the startup block, event by event.  probe is
\*   [stage, source, attempt, reply, duration, replyIn, timeoutIn, error,
\*    waited, made]:
\* stage "head" (HEAD request in flight), "ffprobe", "backoff" (the 2 s
\* timer between attempts) or "done"; reply/replyIn are what the network or
\* ffprobe will answer and in how many ms; timeoutIn is the stage's timer;
\* error is the error of the attempt that failed last;
\* waited (ms spent in the current backoff) and made (attempts started per
\* source) are bookkeeping for the properties.
RETRIES == 3
HEAD_TIMEOUT_MS == 15000
FFPROBE_TIMEOUT_MS == 20000
RETRY_DELAY_MS == 2000

Sources == {"primary", "fallback"}
HeadReplies == {"200", "404", "error"}
\* Times (ms) after which the HEAD request is answered; 16000 is never seen.
HeadTimes == {200, 16000}
FfprobeReplies == {"ok", "err"}
\* The duration (ms) in ffprobe's metadata; 0: the field is missing.
FfprobeDurations == {0} \cup ProbedDurations
\* Times (ms) after which ffprobe calls back; 25000 is never seen.
FfprobeTimes == {1000, 25000}

NoneMade == [s \in Sources |-> 0]

\* The state right after an attempt issued its HEAD request.
NewAttempt(src, n, made) ==
    {[stage |-> "head", source |-> src, attempt |-> n, reply |-> r,
      duration |-> 0, replyIn |-> t, timeoutIn |-> HEAD_TIMEOUT_MS,
      error |-> "", waited |-> 0,
      made |-> [made EXCEPT ![src] = @ + 1]] :
        r \in HeadReplies, t \in HeadTimes}

\* Variant: the result of a failed analysis carries no duration.
AllRetriesFailedNoDefault == [duration |-> 0, metadata |-> FALSE, error |-> TRUE]

\* return { duration: 60, error: 'All retries failed' }
AllRetriesFailed == [duration |-> DEFAULT_DURATION_MS, metadata |-> FALSE, error |-> TRUE]
Analyzed(d) ==
    [duration |-> IF d = 0 THEN DEFAULT_DURATION_MS ELSE d,
     metadata |-> TRUE, error |-> FALSE]

\* const activeUrl = videoInfo.metadata ? PRIMARY_VIDEO_URL : FALLBACK_VIDEO_URL
ActiveUrlOf(info) == IF info.metadata THEN "primary" ELSE "fallback"

\* analyzeVideo returned result to the startup block.
AnalyzeReturns(result) ==
    /\ videoInfo' = result
    /\ IF probe.source = "primary" /\ result.error
       THEN /\ probe' \in NewAttempt("fallback", 1, probe.made)
            /\ UNCHANGED <<phase, videoDuration, tickIn, activeUrl>>
       ELSE /\ probe' = [probe EXCEPT !.stage = "done", !.reply = "",
                                      !.replyIn = NaN, !.timeoutIn = NaN]
            /\ videoDuration' = result.duration
            /\ IF result.error
               THEN /\ phase' = "patternOnly"
                    /\ UNCHANGED <<tickIn, activeUrl>>
               ELSE /\ activeUrl' = ActiveUrlOf(result)
                    /\ phase' = "running"
                    /\ tickIn' = TICK_MS

\* Variant: the wait between attempts grows with the attempt number.
RetryDelayGrowing(attempt) == RETRY_DELAY_MS * attempt

\* The wait that follows a failed attempt.
RetryDelay(attempt) == RETRY_DELAY_MS

\* The attempt's promise resolved with an error.
AttemptFailed(why) ==
    IF probe.attempt < RETRIES
    THEN /\ probe' = [probe EXCEPT !.stage = "backoff", !.reply = "",
                                   !.error = why,
                                   !.replyIn = NaN,
                                   !.timeoutIn = RetryDelay(probe.attempt),
                                   !.waited = 0]
         /\ UNCHANGED <<phase, videoDuration, tickIn, videoInfo, activeUrl>>
    ELSE AnalyzeReturns(AllRetriesFailed)

ProbeFrame ==
    UNCHANGED <<currentFrame, consecutiveErrors, lastPixels, processingActive,
                pending, cooldowns, sincePause, okRun, callVars, retryTimers,
                probeIn, attempts, response, convertVars, cacheVars, preVars>>

ProbeInit ==
    /\ phase = "probing"
    /\ videoDuration = DEFAULT_DURATION_MS
    /\ currentFrame = 0
    /\ consecutiveErrors = 0
    /\ lastPixels = TestPattern
    /\ processingActive = FALSE
    /\ pending = {}
    /\ tickIn = 0
    /\ cooldowns = {}
    /\ sincePause = 0
    /\ okRun = NoRun
    /\ CallFresh
    /\ retryTimers = <<>>
    /\ probeIn = 0
    /\ attempts = 0
    /\ response = NoResponse
    /\ pixelsBuilt = <<>>
    /\ loopIndex = NaN
    /\ videoInfo = NoInfo
    /\ activeUrl = "none"
    /\ frameCache = <<>>
    /\ batch = NoBatch
    /\ PreIdle
    /\ probe \in NewAttempt("primary", 1, NoneMade)

\* The HEAD request's response callback.
HeadResponse ==
    /\ probe.stage = "head"
    /\ probe.replyIn = 0
    /\ probe.reply \in {"200", "404"}
    /\ IF probe.reply = "200"
       THEN /\ \E r \in FfprobeReplies, d \in FfprobeDurations, t \in FfprobeTimes :
                  probe' = [probe EXCEPT !.stage = "ffprobe", !.reply = r,
                                         !.duration = IF r = "ok" THEN d ELSE 0,
                                         !.replyIn = t,
                                         !.timeoutIn = FFPROBE_TIMEOUT_MS]
            /\ UNCHANGED <<phase, videoDuration, tickIn, videoInfo, activeUrl>>
       ELSE AttemptFailed("HTTP 404")
    /\ ProbeFrame

\* testRequest.on('error')
HeadError ==
    /\ probe.stage = "head"
    /\ probe.replyIn = 0
    /\ probe.reply = "error"
    /\ AttemptFailed("request error")
    /\ ProbeFrame

\* testRequest.setTimeout(15000, ...)
HeadTimeout ==
    /\ probe.stage = "head"
    /\ probe.timeoutIn = 0
    /\ AttemptFailed("Timeout")
    /\ ProbeFrame

\* The ffprobe callback.
FfprobeDone ==
    /\ probe.stage = "ffprobe"
    /\ probe.replyIn = 0
    /\ IF probe.reply = "err"
       THEN AttemptFailed("ffprobe error")
       ELSE AnalyzeReturns(Analyzed(probe.duration))
    /\ ProbeFrame

\* The 20 s timer of runFFprobe.
FfprobeTimeout ==
    /\ probe.stage = "ffprobe"
    /\ probe.timeoutIn = 0
    /\ AttemptFailed("FFprobe timeout")
    /\ ProbeFrame

\* The timer between two attempts fires; the loop issues the next request.
BackoffDone ==
    /\ probe.stage = "backoff"
    /\ probe.timeoutIn = 0
    /\ probe' \in NewAttempt(probe.source, probe.attempt + 1, probe.made)
    /\ UNCHANGED <<phase, videoDuration, tickIn, videoInfo, activeUrl>>
    /\ ProbeFrame

ProbeDeadlines == {probe.replyIn, probe.timeoutIn} \ {NaN}

ProbeAdvance ==
    /\ probe.stage \in {"head", "ffprobe", "backoff"}
    /\ \A x \in ProbeDeadlines : x > 0
    /\ LET dt == SetMin(ProbeDeadlines) IN
          probe' = [probe EXCEPT
                      !.replyIn = IF @ = NaN THEN NaN ELSE @ - dt,
                      !.timeoutIn = @ - dt,
                      !.waited = IF probe.stage = "backoff" THEN @ + dt ELSE @]
    /\ UNCHANGED <<phase, videoDuration, tickIn, videoInfo, activeUrl>>
    /\ ProbeFrame

ProbeStep ==
    \/ HeadResponse
    \/ HeadError
    \/ HeadTimeout
    \/ FfprobeDone
    \/ FfprobeTimeout
    \/ BackoffDone

ProbeNext ==
    \/ ProbeStep
    \/ ProbeAdvance

ProbeSpec == ProbeInit /\ [][ProbeNext]_vars

\* ------------------------------------------------------------ frame cache
\* The cache variant: BatchFrameProcessor.processFrameBatch and its three
\* callers.  frameCache is the Map as the sequence of its entries [key, at]
\* in insertion order; at is the number of the insert that created the
\* entry.  batch is the processor: isProcessing is its gate, stage is "idle",
\* "extracting" (awaiting extractFrames) or "caching" (inside the forEach,
\* index frames done), runs counts the calls of processFrameBatch that
\* passed the gate and have not returned, clock counts the inserts, failed
\* tells whether the run that returned last had failed.
\* The two intervals and the decoder are not synchronised: their callbacks
\* are taken in any order.
\* The program's sizes are CACHE_SIZE = 100, batches of 10, a first batch of
\* 30 and a lookahead of 20.
CACHE_SIZE == 3
BATCH_COUNT == 2
INITIAL_COUNT == 4
LOOKAHEAD == 2
\* Number of inserts followed, and longest streak of cache misses followed.
MaxInserts == 7
MaxMisses == 2

\* Durations (ms) the probe of the cache variant reports: 4 and 10 frames.
CacheDurations == {700, 1700}

HasKey(cache, key) == \E i \in 1..Len(cache) : cache[i].key = key

\* The pixels extractFrames built for the frame cached under key.
CachedPixels(key) == SimpleConvert(FrameBytes(key, ExpectedSize))

\* frameCache.set(frameNum, pixels): a new key goes to the end, a key already
\* present keeps its place.
MapSet(cache, key, stamp) ==
    IF HasKey(cache, key) THEN cache ELSE Append(cache, [key |-> key, at |-> stamp])

\* Variant: the entry with the lowest frame number is deleted.
TrimLowestKey(cache) ==
    IF Len(cache) > CACHE_SIZE
    THEN LET low == CHOOSE i \in 1..Len(cache) :
                        \A j \in 1..Len(cache) : cache[i].key <= cache[j].key
         IN SubSeq(cache, 1, low - 1) \o SubSeq(cache, low + 1, Len(cache))
    ELSE cache

\* if (frameCache.size > CACHE_SIZE) delete frameCache.keys().next().value
Trim(cache) == IF Len(cache) > CACHE_SIZE THEN Tail(cache) ELSE cache

\* Variant: the gate is never seen closed.
IsProcessingNever == FALSE

\* batchProcessor.isProcessing, as read by the callers and by
\* processFrameBatch itself.
IsProcessing == batch.isProcessing

\* processFrameBatch(startFrame, count) up to its await.
ProcessFrameBatch(startFrame, count) ==
    IF IsProcessing
    THEN batch
    ELSE [batch EXCEPT !.isProcessing = TRUE, !.stage = "extracting",
                       !.startFrame = startFrame, !.count = count,
                       !.index = 0, !.frames = 0, !.runs = @ + 1]

\* this.isProcessing = false, at the end of processFrameBatch; ok tells
\* whether the try block or the catch block came before it.
LeaveBatch(ok) ==
    [batch EXCEPT !.isProcessing = FALSE, !.stage = "idle", !.startFrame = 0,
                  !.count = 0, !.index = 0, !.frames = 0, !.runs = @ - 1,
                  !.failed = ~ok]

CacheFrame ==
    UNCHANGED <<phase, videoDuration, processingActive, pending, tickIn,
                cooldowns, sincePause, okRun, callVars, retryTimers, probeIn,
                attempts, response, convertVars, probeVars,
                preVars>>

\* The startup block found the video and startProcessing has called
\* processFrameBatch(0, 30).
CacheInit ==
    /\ phase = "running"
    /\ videoDuration \in CacheDurations
    /\ currentFrame = 0
    /\ consecutiveErrors = 0
    /\ lastPixels = TestPattern
    /\ processingActive = FALSE
    /\ pending = {}
    /\ tickIn = 0
    /\ cooldowns = {}
    /\ sincePause = 0
    /\ okRun = NoRun
    /\ CallFresh
    /\ retryTimers = <<>>
    /\ probeIn = 0
    /\ attempts = 0
    /\ response = NoResponse
    /\ pixelsBuilt = <<>>
    /\ loopIndex = NaN
    /\ probe = NoProbe
    /\ videoInfo = NoInfo
    /\ activeUrl = "none"
    /\ frameCache = <<>>
    /\ batch = [NoBatch EXCEPT !.isProcessing = TRUE, !.stage = "extracting",
                               !.count = INITIAL_COUNT, !.runs = 1]
    /\ PreIdle

\* The predictive-caching interval (every 2 s).
PredictiveTick ==
    /\ batch.stage # "caching"
    /\ batch.clock + BATCH_COUNT <= MaxInserts
    /\ LET targetFrame == JsMod(JsAdd(currentFrame, LOOKAHEAD), TotalFrames) IN
          batch' = IF IsProcessing \/ HasKey(frameCache, targetFrame)
                   THEN batch
                   ELSE ProcessFrameBatch(targetFrame, BATCH_COUNT)
    /\ UNCHANGED <<currentFrame, consecutiveErrors, lastPixels, frameCache>>
    /\ CacheFrame

\* The frame-advance interval (every 1000 / FPS ms).
AdvanceTick ==
    /\ batch.stage # "caching"
    /\ batch.clock + BATCH_COUNT <= MaxInserts
    /\ IF HasKey(frameCache, currentFrame)
       THEN /\ lastPixels' = CachedPixels(currentFrame)
            /\ consecutiveErrors' = 0
            /\ UNCHANGED batch
       ELSE /\ consecutiveErrors < MaxMisses
            /\ consecutiveErrors' = consecutiveErrors + 1
            /\ batch' = IF IsProcessing
                        THEN batch
                        ELSE ProcessFrameBatch(currentFrame, BATCH_COUNT)
            /\ UNCHANGED lastPixels
    /\ currentFrame' = JsMod(JsAdd(currentFrame, 1), TotalFrames)
    /\ UNCHANGED frameCache
    /\ CacheFrame

\* extractFrames resolved with n frames; the forEach is entered.
ExtractResolves ==
    /\ batch.stage = "extracting"
    /\ \E n \in 0..batch.count :
          batch' = IF n = 0
                   THEN LeaveBatch(TRUE)
                   ELSE [batch EXCEPT !.stage = "caching", !.index = 0, !.frames = n]
    /\ UNCHANGED <<currentFrame, consecutiveErrors, lastPixels, frameCache>>
    /\ CacheFrame

\* extractFrames rejected (30 s timeout, stream or ffmpeg error).
ExtractRejects ==
    /\ batch.stage = "extracting"
    /\ batch' = LeaveBatch(FALSE)
    /\ UNCHANGED <<currentFrame, consecutiveErrors, lastPixels, frameCache>>
    /\ CacheFrame

\* One iteration of the forEach; the last one leaves processFrameBatch.
InsertFrame ==
    /\ batch.stage = "caching"
    /\ batch.index < batch.frames
    /\ frameCache' = Trim(MapSet(frameCache, JsAdd(batch.startFrame, batch.index),
                                 batch.clock + 1))
    /\ batch' = IF batch.index + 1 = batch.frames
                THEN [LeaveBatch(TRUE) EXCEPT !.clock = @ + 1]
                ELSE [batch EXCEPT !.index = @ + 1, !.clock = @ + 1]
    /\ UNCHANGED <<currentFrame, consecutiveErrors, lastPixels>>
    /\ CacheFrame

CacheNext ==
    \/ PredictiveTick
    \/ AdvanceTick
    \/ ExtractResolves
    \/ ExtractRejects
    \/ InsertFrame

CacheSpec == CacheInit /\ [][CacheNext]_vars

\* ------------------------------------------------------------ pre-processing
\* The pre-processing variant: preProcessVideo, processBatch, processFrame
\* and the frame cycling interval.  A decode is [frame, state] with state
\* "pending", "ok" (resolved with WIDTH*HEIGHT pixels), "null" (resolved
\* with null) or "rejected" (error or 5 s timeout).  A slot of
\* preProcessedFrames holds the number of the frame whose pixels were stored
\* in it.  pre.stage is "waiting" (preProcessVideo not yet called), "group"
\* (processBatch awaits the five it spliced off), "rest" (it awaits the
\* remaining ones) or "done"; pre.frameNum is the next frame the loop will
\* start; batchOk, lastStart, lastEnd and lastOk record whether every decode
\* of the current batch, and of the batch completed last, resolved with
\* pixels.  pre.stray counts the ffmpeg processes whose decode was rejected
\* by the 5 s timer and which have not exited yet.
\* The program decodes 5 frames at a time in batches of 30.
GROUP_SIZE == 2
PRE_BATCH_SIZE == 3
\* Most timed-out ffmpeg processes followed at a time.
MaxStray == 2

\* Durations (ms) ffprobe reports: 0, 2, 5 and 7 frames.
PreDurations == {100, 400, 900, 1200}

\* How one decode ends.
DecodeResults == {"ok", "null", "rejected"}

\* if (promises.length >= 5)
GroupFull(n) == n >= GROUP_SIZE

\* arr[idx] = v of a JavaScript array: a slot past the end leaves holes.
ArraySet(arr, idx, v) ==
    [k \in 1..Max(Len(arr), idx + 1) |->
        IF k = idx + 1 THEN v
        ELSE IF k <= Len(arr) THEN arr[k] ELSE Undefined]

\* results.forEach((result, i) => { if fulfilled with a value:
\*     preProcessedFrames[first + i] = result.value }), from i on.
RECURSIVE StoreResults(_, _, _, _)
StoreResults(arr, first, results, i) ==
    IF i >= Len(results)
    THEN arr
    ELSE StoreResults(IF results[i + 1].state = "ok"
                      THEN ArraySet(arr, first + i, results[i + 1].frame)
                      ELSE arr,
                      first, results, i + 1)

\* preProcessVideo after processBatch returned: the next batch, or the end.
\* processBatch from the top of an iteration of its loop to its next await.
RECURSIVE RunLoop(_)
NextBatch(p) ==
    LET q == [p EXCEPT !.lastStart = p.startFrame, !.lastEnd = p.endFrame,
                       !.lastOk = p.batchOk, !.promises = <<>>,
                       !.awaited = <<>>]
    IN IF p.endFrame < p.totalFrames
       THEN RunLoop([q EXCEPT !.startFrame = p.endFrame,
                              !.endFrame = Min(p.endFrame + PRE_BATCH_SIZE,
                                               p.totalFrames),
                              !.frameNum = p.endFrame,
                              !.batchOk = TRUE])
       ELSE [q EXCEPT !.stage = "done", !.isPreProcessing = FALSE]
RunLoop(p) ==
    IF p.frameNum < p.endFrame
    THEN LET q == [p EXCEPT !.promises = Append(@, [frame |-> p.frameNum,
                                                    state |-> "pending"]),
                            !.frameNum = @ + 1]
         IN IF GroupFull(Len(q.promises))
            THEN [q EXCEPT !.stage = "group",
                           !.awaited = SubSeq(q.promises, 1,
                                              Min(GROUP_SIZE, Len(q.promises))),
                           !.promises = SubSeq(q.promises, GROUP_SIZE + 1,
                                               Len(q.promises))]
            ELSE RunLoop(q)
    ELSE IF Len(p.promises) > 0
         THEN [p EXCEPT !.stage = "rest", !.awaited = p.promises]
         ELSE NextBatch(p)

PreFrame ==
    UNCHANGED <<ctlVars, callVars, retryTimers, probeIn, attempts, response,
                convertVars, probeVars, cacheVars>>

PreInit ==
    /\ phase = "probing"
    /\ videoDuration = DEFAULT_DURATION_MS
    /\ currentFrame = 0
    /\ consecutiveErrors = 0
    /\ lastPixels = <<>>
    /\ processingActive = FALSE
    /\ pending = {}
    /\ tickIn = 0
    /\ cooldowns = {}
    /\ sincePause = 0
    /\ okRun = NoRun
    /\ AuxIdle

\* setTimeout(preProcessVideo, 1000) fires: the video file is missing,
\* ffprobe fails, or the first batch is started.
PreProcessVideo ==
    /\ pre.stage = "waiting"
    /\ ~pre.isPreProcessing
    /\ \/ pre' = [pre EXCEPT !.stage = "done"]
       \/ \E d \in PreDurations :
             pre' = NextBatch([pre EXCEPT !.isPreProcessing = TRUE,
                                          !.totalFrames = TotalFramesOf(d)])
    /\ UNCHANGED <<preProcessedFrames, currentFrameIndex>>
    /\ PreFrame

\* The promise of the i-th awaited decode settles as r.  While the
\* remaining ones are awaited, promises and awaited are the same array.
SettleDecode(i, r) ==
    [pre EXCEPT !.awaited[i].state = r,
                !.promises = [k \in 1..Len(@) |->
                                IF @[k].frame = pre.awaited[i].frame
                                THEN [@[k] EXCEPT !.state = r]
                                ELSE @[k]],
                !.batchOk = @ /\ r = "ok"]

\* One decode ends with 'end' or 'error' of its ffmpeg process.
DecodeSettles ==
    /\ \E i \in 1..Len(pre.awaited), r \in DecodeResults :
          /\ pre.awaited[i].state = "pending"
          /\ pre' = SettleDecode(i, r)
    /\ UNCHANGED <<preProcessedFrames, currentFrameIndex>>
    /\ PreFrame

\* The 5 s timer of a decode fires: the promise is rejected and the ffmpeg
\* process is left running.
FrameTimeout ==
    /\ pre.stray < MaxStray
    /\ \E i \in 1..Len(pre.awaited) :
          /\ pre.awaited[i].state = "pending"
          /\ pre' = [SettleDecode(i, "rejected") EXCEPT !.stray = @ + 1]
    /\ UNCHANGED <<preProcessedFrames, currentFrameIndex>>
    /\ PreFrame

\* The ffmpeg process of a timed-out decode ends: clearTimeout, and resolve
\* or reject of a promise that is settled already.
StrayExits ==
    /\ pre.stray > 0
    /\ pre' = [pre EXCEPT !.stray = @ - 1]
    /\ UNCHANGED <<preProcessedFrames, currentFrameIndex>>
    /\ PreFrame

\* Promise.allSettled resolves: the results are stored and processBatch
\* runs on to its next await, or returns to preProcessVideo.
GroupSettled ==
    /\ pre.stage \in {"group", "rest"}
    /\ \A i \in 1..Len(pre.awaited) : pre.awaited[i].state # "pending"
    /\ preProcessedFrames' =
          StoreResults(preProcessedFrames,
                       IF pre.stage = "group"
                       THEN pre.startFrame
                       ELSE pre.startFrame + Len(pre.promises) - Len(pre.awaited),
                       pre.awaited, 0)
    /\ pre' = IF pre.stage = "group"
              THEN RunLoop([pre EXCEPT !.awaited = <<>>])
              ELSE NextBatch(pre)
    /\ UNCHANGED currentFrameIndex
    /\ PreFrame

\* The frame cycling interval.
CycleTick ==
    /\ currentFrameIndex' =
          IF Len(preProcessedFrames) > 0
          THEN (currentFrameIndex + 1) % Len(preProcessedFrames)
          ELSE currentFrameIndex
    /\ UNCHANGED <<preProcessedFrames, pre>>
    /\ PreFrame

PreNext ==
    \/ PreProcessVideo
    \/ DecodeSettles
    \/ FrameTimeout
    \/ StrayExits
    \/ GroupSettled
    \/ CycleTick

PreSpec == PreInit /\ [][PreNext]_vars

\* ------------------------------------------------------------ properties
\* How the call d in flight is about to end.
Resolves(d) == d.kind = "end" /\ d.doneIn = 0 /\ d.len > 0
Succeeds(d) == d.kind = "end" /\ d.doneIn = 0 /\ Len(Delivered(d)) > 0
ResolvesEmpty(d) == Resolves(d) /\ Len(Delivered(d)) = 0
Rejects(d) ==
    \/ d.timeoutIn = 0
    \/ d.kind = "error" /\ d.doneIn = 0
    \/ d.kind = "end" /\ d.doneIn = 0 /\ d.len = 0
\* The step settles call d.
Settles(d) == d \in pending /\ pending' = pending \ {d}
\* The step starts a decode.
StartsDecode == Cardinality(pending') > Cardinality(pending)
\* The step is a firing of the interval.
IsTick == tickIn = 0 /\ tickIn' = TICK_MS
Paused == consecutiveErrors > HIGH_THRESHOLD

\* C1: at most one processFrameWithDebug call is pending at any time.
C1_AtMostOneDecode == Cardinality(pending) <= 1
\* A call has been pending for longer than a tick period, so at least one
\* tick fired against the gate.
C1_Witness ==
    \E d \in pending : d.timeoutIn < DECODE_TIMEOUT_MS - TICK_MS /\ processingActive

\* C2: while the controller runs, 0 <= currentFrame < totalFrames.
C2_CursorInRange ==
    phase = "running" => (0 <= currentFrame /\ currentFrame < TotalFrames)

\* C3: after N successful decodes with no failure in between the cursor is
\* (initial + N) mod totalFrames.
C3_RunAdvances ==
    (TotalFrames > 0 /\ okRun.n > 0)
        => currentFrame = (okRun.base + okRun.n) % TotalFrames
\* totalFrames = 10, the cursor was 9, one success: the cursor is 0.
C3_Witness ==
    TotalFrames = 10 /\ okRun = [base |-> 9, n |-> 1] /\ currentFrame = 0

\* C4: while consecutiveErrors exceeds the high threshold no decode is
\* started, and the pause ends no earlier than 10 s after it began.
C4_PauseLastsCooldown ==
    [][/\ Paused => ~StartsDecode
       /\ (Paused /\ ~Paused') => sincePause >= COOLDOWN_MS]_vars
\* Paused, the cooldown has elapsed and the timer that ends the pause is due.
C4_Witness == Paused /\ sincePause >= COOLDOWN_MS /\ 0 \in cooldowns

\* C5: a decode that delivers a non-empty pixel sequence sets
\* consecutiveErrors to 0 and publishes the sequence.
C5_SuccessResets ==
    [][\A d \in pending :
          (Settles(d) /\ Succeeds(d))
              => consecutiveErrors' = 0 /\ lastPixels' = Delivered(d)]_vars
\* A decode is about to succeed after five consecutive failures.
C5_Witness ==
    \E d \in pending : Succeeds(d) /\ consecutiveErrors = HIGH_THRESHOLD

C7_FailureAdvancesOne ==
    [][\A d \in pending :
          (Settles(d) /\ (Rejects(d) \/ ResolvesEmpty(d))
             /\ consecutiveErrors <= SKIP_THRESHOLD /\ TotalFrames > 0)
              => /\ consecutiveErrors' = consecutiveErrors + 1
                 /\ currentFrame' = (currentFrame + 1) % TotalFrames]_vars
\* C7 amended: a failure at e <= 2 increments e; a decode that resolved
\* with no pixels advances the cursor by one, a rejected decode leaves the
\* cursor in place at e <= 1 and skips FPS*2 frames at e = 2.
C7_FailureAtLowStreak ==
    [][\A d \in pending :
          (Settles(d) /\ consecutiveErrors <= SKIP_THRESHOLD)
              => /\ ResolvesEmpty(d)
                    => /\ consecutiveErrors' = consecutiveErrors + 1
                       /\ currentFrame' = JsMod(JsAdd(currentFrame, 1), TotalFrames)
                 /\ (Rejects(d) /\ consecutiveErrors < SKIP_THRESHOLD)
                    => /\ consecutiveErrors' = consecutiveErrors + 1
                       /\ currentFrame' = currentFrame
                 /\ (Rejects(d) /\ consecutiveErrors = SKIP_THRESHOLD)
                    => /\ consecutiveErrors' = consecutiveErrors + 1
                       /\ currentFrame' = JsMod(JsAdd(currentFrame, FPS * 2), TotalFrames)]_vars
\* A decode is about to be rejected with one failure on the streak.
C7_Witness ==
    \E d \in pending : Rejects(d) /\ consecutiveErrors = 1 /\ TotalFrames = 10

\* C8 as stated: a failure at 2 < e <= 5 increments e and skips FPS*2 frames.
C8_FailureSkips ==
    [][\A d \in pending :
          (Settles(d) /\ (Rejects(d) \/ ResolvesEmpty(d))
             /\ consecutiveErrors > SKIP_THRESHOLD
             /\ consecutiveErrors <= HIGH_THRESHOLD /\ TotalFrames > 0)
              => /\ consecutiveErrors' = consecutiveErrors + 1
                 /\ currentFrame' = (currentFrame + FPS * 2) % TotalFrames]_vars
\* C8 amended: at 2 < e <= 5 a rejected decode increments e and skips FPS*2
\* frames; a decode that resolved with no pixels increments e and advances
\* the cursor by one.
C8_FailureAtHighStreak ==
    [][\A d \in pending :
          (Settles(d) /\ consecutiveErrors > SKIP_THRESHOLD
             /\ consecutiveErrors <= HIGH_THRESHOLD)
              => /\ Rejects(d)
                    => /\ consecutiveErrors' = consecutiveErrors + 1
                       /\ currentFrame' = JsMod(JsAdd(currentFrame, FPS * 2), TotalFrames)
                 /\ ResolvesEmpty(d)
                    => /\ consecutiveErrors' = consecutiveErrors + 1
                       /\ currentFrame' = JsMod(JsAdd(currentFrame, 1), TotalFrames)]_vars
\* A decode is about to be rejected with four failures on the streak.
C8_Witness ==
    \E d \in pending : Rejects(d) /\ consecutiveErrors = 4 /\ TotalFrames = 10

\* C9: once paused, consecutiveErrors is eventually reset to 0 and a new
\* decode is eventually issued.
C9_PauseEnds == Paused ~> (consecutiveErrors = 0 /\ pending # {})
\* A decode is in flight while timers armed during a pause are still pending.
C9_Witness == consecutiveErrors = 0 /\ pending # {} /\ cooldowns # {}

\* C10: a tick that fires while a decode is in flight changes nothing but
\* the interval's own schedule: no decode is started and no timer is armed.
C10_BusyTickIsNoOp ==
    [][(IsTick /\ pending # {})
          => UNCHANGED <<currentFrame, consecutiveErrors, lastPixels,
                         processingActive, pending, cooldowns>>]_vars
\* The interval is due while a decode is in flight.
C10_Witness == tickIn = 0 /\ pending # {}

\* The call was settled by its timeout.
TimedOut == settlements # <<>> /\ settlements[1].why = "timeout"

\* C11: a call of processFrameWithDebug settles at most once, and once it
\* has settled no event changes the outcome or the accumulated buffer.
C11_SingleOutcome ==
    [][/\ Len(settlements') <= 1
       /\ hasCompleted' <=> Len(settlements') = 1
       /\ (hasCompleted /\ hasCompleted')
             => UNCHANGED <<settlements, pixelBuffer>>]_vars
\* The call timed out with a partial buffer, and the stream ended later.
C11_Witness ==
    /\ TimedOut
    /\ outputStream = "ended"
    /\ Len(pixelBuffer) > 0
    /\ Len(pixelBuffer) < ExpectedSize

\* C12: when the controller starts its next decode after a call that timed
\* out, the subprocess of that call is no longer running.
C12_TimedOutSubprocessTerminated ==
    [][(TimedOut /\ ~hasCompleted') => command # "running"]_vars

\* C13: a decode that fails (timeout, empty output, stream or ffmpeg error,
\* or no pixel converted) leaves lastPixels as it was; lastPixels changes
\* only to the pixels of a decode that succeeds in that step, so it always
\* holds the test pattern or the most recent successful decode.
C13_FailureKeepsFrame ==
    [][/\ \A d \in pending :
             (Settles(d) /\ (Rejects(d) \/ ResolvesEmpty(d)))
                 => lastPixels' = lastPixels
       /\ lastPixels' # lastPixels
             => \E d \in pending :
                   Settles(d) /\ Succeeds(d) /\ lastPixels' = Delivered(d)]_vars
\* A decode is about to be rejected after an earlier one had succeeded.
C13_Witness ==
    \E d \in pending : Rejects(d) /\ lastPixels # TestPattern /\ consecutiveErrors > 0

\* C14: in the simple controller an event of an attempt that produced no
\* output (it failed, or its stream ended after zero bytes) leaves
\* lastPixels as it was.
C14_KeepsLastGood ==
    [][\A d \in pending :
          (d.len = 0 /\ \E ev \in d.evs : pending' = AfterEvent(d, ev))
              => lastPixels' = lastPixels]_vars

\* The decodes that have neither ended nor failed yet.
SimpleInFlight == {d \in pending : d.seen = {}}

\* C15: in the simple controller at most one decode is in flight.
C15_SimpleAtMostOne == Cardinality(SimpleInFlight) <= 1

\* C16: in the simple controller the gate is released after every decode
\* start.
C16_GateReleased == processingActive ~> ~processingActive

\* C17: in the adaptive controller, once the probe has produced a non-zero
\* duration decoding is alive: a decode is in flight or a call of
\* processFrame is scheduled.
C17_KeptAlive ==
    (phase = "running" /\ videoDuration # 0)
        => (pending # {} \/ retryTimers # <<>>)

\* The step delivers event ev of attempt d.
Delivers(d, ev) == d.doneIn = 0 /\ ev \in d.evs /\ pending' = AfterEvent(d, ev)

\* C18 as stated: after each completed attempt, success or failure, the
\* next call is scheduled after max(50, 1000/FPS - decode duration) ms.
C18_DelayAfterEveryAttempt ==
    [][\A d \in pending : \A ev \in {"end", "error"} :
          Delivers(d, ev)
              => retryTimers' =
                    Append(retryTimers,
                           Max(MIN_DELAY_MS, (1000 - d.took * FPS) \div FPS))]_vars
\* C18 amended: after the 'end' of an attempt the next call is scheduled
\* after max(50, 1000/FPS - decode duration) ms; after an ffmpeg 'error'
\* it is scheduled after 1000 ms.
C18_DelayAfterEndAndError ==
    [][\A d \in pending :
          /\ Delivers(d, "end")
                => retryTimers' =
                      Append(retryTimers,
                             Max(MIN_DELAY_MS, (1000 - d.took * FPS) \div FPS))
          /\ Delivers(d, "error")
                => retryTimers' = Append(retryTimers, ERROR_DELAY_MS)]_vars
\* The stream of a decode that took longer than the target interval is
\* about to end while the timer of an earlier error is pending.
C18_Witness ==
    /\ \E d \in pending : d.doneIn = 0 /\ "end" \in d.evs /\ d.took > 1000 \div FPS
    /\ retryTimers # <<>>

\* C19: the cursor changes only in the step that processes the outcome of
\* a decode, and while a decode is pending the cursor is the frame that
\* decode seeks.
C19_CursorChangesAtCompletion ==
    [][/\ currentFrame' # currentFrame => \E d \in pending : Settles(d)
       /\ \A d \in pending : d.seek = currentFrame]_vars
\* A decode of a frame other than the first has been pending for more than
\* a tick period.
C19_Witness ==
    \E d \in pending :
        /\ d.seek > 0
        /\ d.timeoutIn < DECODE_TIMEOUT_MS - TICK_MS
        /\ cooldowns # {}

\* C20: a read of /frame is possible in every state, whether the controller
\* is idle, decoding or paused, and the step that answers it leaves the
\* cursor, the error count, lastPixels, the gate and the pending decode as
\* they are.
C20_ReadNeverWaits ==
    /\ [](ENABLED ReadFrame)
    /\ [][(response' # response /\ response' # NoResponse)
            => /\ UNCHANGED ctlVars
               /\ response' = [pixels |-> lastPixels, frame |-> currentFrame,
                               errors |-> consecutiveErrors]]_vars
\* A read was answered while a decode was in flight.
C20_Witness ==
    /\ response # NoResponse
    /\ pending # {}
    /\ response.frame = currentFrame
    /\ response.pixels = lastPixels

\* C21: lastPixels changes in one step from the previous frame to the
\* complete conversion of the buffer, after the loop has finished; a read
\* at any point returns lastPixels, so never a partially built sequence.
C21_AtomicReplace ==
    [][/\ lastPixels' # lastPixels
             => /\ loopIndex = NaN
                /\ lastPixels' = Convert(pixelBuffer)
       /\ (response' # response /\ response' # NoResponse)
             => response'.pixels = lastPixels]_vars
\* A read is answered with the previous frame while the loop has built
\* half of the next.
C21_Witness ==
    /\ loopIndex # NaN
    /\ pixelsBuilt # <<>>
    /\ Len(pixelsBuilt) < Len(Convert(pixelBuffer))
    /\ lastPixels # TestPattern
    /\ response # NoResponse
    /\ response.pixels = lastPixels

\* C22: while no decode has succeeded (during probing, when probing failed,
\* while every decode fails) lastPixels is the test pattern of WIDTH*HEIGHT
\* triplets, and a read returns lastPixels.
C22_PatternUntilFirstFrame ==
    /\ [](/\ Len(TestPattern) = WIDTH * HEIGHT
          /\ phase \in {"probing", "patternOnly"} => lastPixels = TestPattern)
    /\ [][/\ (lastPixels = TestPattern
               /\ ~\E d \in pending : Settles(d) /\ Succeeds(d))
                 => lastPixels' = TestPattern
          /\ (response' # response /\ response' # NoResponse)
                 => response'.pixels = lastPixels]_vars
\* A read is answered with the test pattern after two decodes have failed.
C22_Witness ==
    /\ response # NoResponse
    /\ response.pixels = TestPattern
    /\ response.errors >= SKIP_THRESHOLD

\* C23: when the stream ends with zero bytes the call rejects with 'Empty
\* buffer', and the controller's continuation counts one failure, leaves
\* lastPixels alone and releases the gate.
C23_EmptyOutputIsFailure ==
    [][/\ (~hasCompleted /\ hasCompleted' /\ Len(pixelBuffer) = 0)
             => settlements' = <<RejectWith("empty")>>
       /\ (processingActive /\ ~processingActive' /\ Len(pixelBuffer) = 0)
             => /\ settlements = <<RejectWith("empty")>>
                /\ consecutiveErrors' = consecutiveErrors + 1
                /\ lastPixels' = lastPixels]_vars
\* The call has rejected an empty buffer after an earlier frame was
\* published.
C23_Witness ==
    /\ settlements = <<RejectWith("empty")>>
    /\ processingActive
    /\ lastPixels # TestPattern

\* The step is the 'end' handler settling the call.
EndSettles == outputStream = "open" /\ outputStream' = "ended" /\ ~hasCompleted
LastSettlement == settlements[Len(settlements)]
TripletsOf(buf, n) == [k \in 1..n |-> <<buf[3 * k - 2], buf[3 * k - 1], buf[3 * k]>>]

\* C24: an 'end' with a buffer of WIDTH*HEIGHT*3 - 1 bytes resolves with the
\* truncated conversion: WIDTH*HEIGHT - 1 triplets, triplet k made of bytes
\* 3k, 3k+1, 3k+2 of the buffer; the trailing two bytes are dropped.
C24_ShortBufferTruncated ==
    [][(EndSettles /\ Len(pixelBuffer) = ExpectedSize - 1)
          => /\ Len(settlements') = Len(settlements) + 1
             /\ settlements'[Len(settlements')] =
                   ResolveWith(TripletsOf(pixelBuffer, WIDTH * HEIGHT - 1))]_vars
\* The call has resolved a buffer that is one byte short.
C24_Witness ==
    /\ outputStream = "ended"
    /\ Len(pixelBuffer) = ExpectedSize - 1
    /\ settlements # <<>>
    /\ LastSettlement.kind = "resolve"
    /\ Len(LastSettlement.pixels) = WIDTH * HEIGHT - 1

Example4x2 ==
    <<0, 0, 0, 255, 0, 0, 0, 255, 0, 0, 0, 255,
      255, 255, 255, 128, 128, 128, 10, 20, 30, 40, 50, 60>>
\* C25: a buffer of exactly WIDTH*HEIGHT*3 bytes resolves with exactly
\* WIDTH*HEIGHT triplets, triplet k = (byte 3k, byte 3k+1, byte 3k+2); the 24
\* bytes of the 4x2 example give its 8 triplets in order.
C25_ExactBufferConverted ==
    /\ [](ConvertLoop(Example4x2, 0, <<>>, 4 * 2 * 3) =
             <<<<0, 0, 0>>, <<255, 0, 0>>, <<0, 255, 0>>, <<0, 0, 255>>,
               <<255, 255, 255>>, <<128, 128, 128>>, <<10, 20, 30>>,
               <<40, 50, 60>>>>)
    /\ [][(EndSettles /\ Len(pixelBuffer) = ExpectedSize)
             => /\ Len(settlements') = Len(settlements) + 1
                /\ Len(settlements'[Len(settlements')].pixels) = WIDTH * HEIGHT
                /\ settlements'[Len(settlements')] =
                      ResolveWith(TripletsOf(pixelBuffer, WIDTH * HEIGHT))]_vars
\* The call has resolved a full buffer whose pixels differ in their channels.
C25_Witness ==
    /\ outputStream = "ended"
    /\ Len(pixelBuffer) = ExpectedSize
    /\ settlements # <<>>
    /\ LastSettlement.kind = "resolve"
    /\ Len(LastSettlement.pixels) = WIDTH * HEIGHT
    /\ LastSettlement.pixels[1] = <<255, 0, 0>>

\* C26: when every attempt on both sources failed, startup has finished in
\* pattern-only mode with the duration at its 60 s default, so that
\* totalFrames = 60 * FPS, and the test pattern is what is served.
C26_ProbeFailureDefaults ==
    /\ [][(/\ probe.source = "fallback"
           /\ probe.attempt = RETRIES
           /\ \/ probe.stage \in {"head", "ffprobe"} /\ probe.timeoutIn = 0
              \/ probe.replyIn = 0 /\ probe.reply \in {"404", "error", "err"}
           /\ probe' # probe)
             => /\ probe'.stage = "done"
                /\ videoInfo'.error
                /\ videoInfo'.duration = DEFAULT_DURATION_MS]_vars
    /\ []((probe.stage = "done" /\ videoInfo.error)
             => /\ videoDuration = DEFAULT_DURATION_MS
                /\ TotalFrames = 60 * FPS
                /\ phase = "patternOnly"
                /\ lastPixels = TestPattern)
\* Three attempts failed on each source.
C26_Witness ==
    /\ probe.stage = "done"
    /\ videoInfo.error
    /\ probe.made = [s \in Sources |-> RETRIES]

\* C27: no source is tried more than 3 times; the fallback is tried only
\* after 3 attempts on the primary; an attempt after the first of a source
\* starts exactly 2 s after the previous one failed; a successful attempt
\* ends the probing with no further attempt; and until probing is done some
\* step is always possible.
C27_BoundedRetries ==
    /\ [](/\ \A src \in Sources : probe.made[src] <= RETRIES
          /\ probe.made["fallback"] > 0 => probe.made["primary"] = RETRIES
          /\ probe.stage # "done" => ENABLED ProbeNext)
    /\ [][/\ probe'.made # probe.made
                => \/ /\ probe'.source = "fallback" /\ probe'.attempt = 1
                      /\ probe.source = "primary" /\ probe.attempt = RETRIES
                      /\ videoInfo'.error
                   \/ /\ probe.stage = "backoff"
                      /\ probe.waited = RETRY_DELAY_MS
                      /\ probe'.source = probe.source
                      /\ probe'.attempt = probe.attempt + 1
          /\ (probe.stage = "ffprobe" /\ probe.replyIn = 0 /\ probe.reply = "ok"
                /\ probe' # probe)
               => /\ probe'.stage = "done"
                  /\ probe'.made = probe.made
                  /\ ~videoInfo'.error]_vars
\* The fallback succeeded at its second attempt.
C27_Witness ==
    /\ probe.stage = "done"
    /\ ~videoInfo.error
    /\ probe.made = [s \in Sources |-> IF s = "primary" THEN RETRIES ELSE 2]

\* C28: once probing is done the cursor modulus is at least 1.
C28_TotalFramesAtLeastOne ==
    probe.stage = "done" => TotalFramesOf(videoDuration) >= 1

\* C30: when the decode loop is started, it is started with the URL of the
\* source whose probe succeeded.
C30_StartedWithProbedUrl ==
    phase = "running" => activeUrl = probe.source

Stamps(cache) == {cache[i].at : i \in 1..Len(cache)}
Entries(cache) == {cache[i] : i \in 1..Len(cache)}

\* C29: frameCache never holds more than CACHE_SIZE entries after an insert,
\* and an insert that finds the cache full with a new key evicts exactly one
\* entry, the one inserted earliest among those in the cache.
C29_CacheBounded ==
    /\ [](Len(frameCache) <= CACHE_SIZE)
    /\ [][/\ \A e \in Entries(frameCache) \ Entries(frameCache') :
                /\ \A at \in Stamps(frameCache) : e.at <= at
                /\ Entries(frameCache) \ Entries(frameCache') = {e}
                /\ Len(frameCache) = CACHE_SIZE
          /\ (/\ batch.stage = "caching"
              /\ Len(frameCache) = CACHE_SIZE
              /\ ~HasKey(frameCache, batch.startFrame + batch.index))
                => /\ Len(frameCache') = CACHE_SIZE
                   /\ Entries(frameCache) \ Entries(frameCache') = {frameCache[1]}
                   /\ HasKey(frameCache', batch.startFrame + batch.index)]_vars
\* The cache is full, an entry has been evicted, and the oldest entry left
\* is not the one with the lowest frame number.
C29_Witness ==
    /\ Len(frameCache) = CACHE_SIZE
    /\ batch.clock > CACHE_SIZE
    /\ \E i \in 2..Len(frameCache) : frameCache[i].key < frameCache[1].key

\* C31: a cooldown timer resets consecutiveErrors only while the controller
\* is paused (consecutiveErrors > 5).
C31_CooldownResetsOnlyWhilePaused ==
    [][(/\ 0 \in cooldowns
        /\ cooldowns' = cooldowns \ {0}
        /\ consecutiveErrors' # consecutiveErrors)
          => Paused]_vars

\* C32: consecutiveErrors stays within 0..HIGH_THRESHOLD + 1.
C32_ErrorsBounded == consecutiveErrors \in 0..(HIGH_THRESHOLD + 1)
\* The streak is at its maximum and the tick that is due will be refused.
C32_Witness ==
    /\ consecutiveErrors = HIGH_THRESHOLD + 1
    /\ tickIn = 0
    /\ pending = {}
    /\ cooldowns # {}

\* C33: the published frame always has exactly WIDTH*HEIGHT triplets.
C33_PublishedFrameComplete == Len(lastPixels) = WIDTH * HEIGHT

\* C34: a read made after a run of successful decodes returns, with the
\* pixels, the index of the frame that was decoded last.
C34_IndexIdentifiesFrame ==
    [][(/\ response = NoResponse
        /\ response' # NoResponse
        /\ TotalFrames > 1
        /\ okRun.n > 0)
          => response'.frame = JsMod(okRun.base + okRun.n - 1, TotalFrames)]_vars

\* C35: the pending next-attempt timers and the decode in flight number at
\* most one together.
C35_OneTimerOrOneDecode ==
    Len(retryTimers) + (IF processingActive THEN 1 ELSE 0) <= 1

\* C36: at most one run of processFrameBatch is in progress, the gate is
\* closed exactly while one is, every run that returns leaves the gate
\* open, and a run in progress can always end.
C36_OneBatchAtATime ==
    /\ [](/\ batch.runs <= 1
          /\ batch.isProcessing <=> batch.runs = 1
          /\ batch.stage = "extracting" => ENABLED ExtractRejects
          /\ batch.stage = "caching" => ENABLED InsertFrame)
    /\ [][batch'.runs < batch.runs => ~batch'.isProcessing]_vars
\* A run failed and released the gate, and a later run is in progress while
\* both callers find the gate closed.
C36_Witness ==
    /\ batch.failed
    /\ batch.isProcessing
    /\ batch.runs = 1
    /\ batch.stage = "extracting"
    /\ batch.startFrame > 0
    /\ ~HasKey(frameCache, currentFrame)

\* C37: every key of frameCache is a frame index of the video.
C37_KeysAreFrameIndices ==
    \A i \in 1..Len(frameCache) :
        frameCache[i].key >= 0 /\ frameCache[i].key < TotalFrames

\* C38: when a batch has completed with every decode successful, slot f of
\* preProcessedFrames holds frame f for every f of the batch.
C38_BatchStoresEveryFrame ==
    pre.lastOk =>
        \A f \in pre.lastStart..(pre.lastEnd - 1) :
            f < Len(preProcessedFrames) /\ preProcessedFrames[f + 1] = f

\* C39: when preProcessedFrames is not empty, currentFrameIndex is one of
\* its indices and the slot at it holds a frame.
C39_CurrentSlotHoldsFrame ==
    Len(preProcessedFrames) > 0 =>
        /\ currentFrameIndex \in 0..(Len(preProcessedFrames) - 1)
        /\ preProcessedFrames[currentFrameIndex + 1] # Undefined

\* The frames whose decode has been started and has not settled.
PendingIn(decodes) ==
    {decodes[i].frame : i \in {j \in 1..Len(decodes) : decodes[j].state = "pending"}}
\* The ffmpeg processes of frame decodes that are running.
Running ==
    Cardinality(PendingIn(pre.awaited) \cup PendingIn(pre.promises)) + pre.stray

\* C40: at most GROUP_SIZE frame decodes are running at a time.
C40_AtMostFiveDecodes == Running <= GROUP_SIZE

====
